---- MODULE Spec2Model ----
(***************************************************************************)
(* A model of the streaming YAML writer of saphyr-parser (src/writer.rs,   *)
(* src/writer/write_stack.rs) and of its scalar model (src/scalar.rs).     *)
(*                                                                         *)
(* Text is a sequence of bytes; every text of the model is ASCII, so a     *)
(* byte is also a char.  The sink is the text written so far.              *)
(***************************************************************************)
EXTENDS Integers, Sequences, FiniteSets, TLC

VARIABLES
    stack,                      \* YamlWriter.stack, bottom first
    level,                      \* YamlWriter.level
    out,                        \* the text the sink has accepted
    compact,                    \* YamlWriter.compact
    multiline_strings,          \* YamlWriter.multiline_strings
    omit_first_doc_separator,   \* YamlWriter.omit_first_doc_separator
    result,                     \* what the last call of event returned
    accepted,                   \* the events whose call returned Ok, in order
    errored,                    \* some call of event has returned an error
    after_error,                \* the last call of event came after such a call
    conversion                  \* the last conversion made outside event: a parser
                                \* Event and its WriteEvent, or the text given to a
                                \* direct call of escape_str

vars == <<stack, level, out, compact, multiline_strings,
          omit_first_doc_separator, result, accepted, errored, after_error,
          conversion>>

config == <<compact, multiline_strings, omit_first_doc_separator>>

----------------------------------------------------------------------------
(* Bounds of the exploration.                                              *)

\* Calls of event that return Ok, per writer.
MaxEvents == 6
\* The sink fails at one of its first MaxSinkWrites + 1 writes of a call, or never.
MaxSinkWrites == 1
\* Calls of event that return Ok under SpecDocs.
MaxDocEvents == 9
\* Calls of event that return Ok under SpecNodes.
MaxNodeEvents == 8
\* Length of the generated scalar texts.
MaxStrLen == 3
\* Events of a run of SpecScalar.
MaxScalarEvents == 5
\* Events of a run of SpecTyped.
MaxTypedEvents == 6
\* Events of a run of SpecConvert.
MaxConvertEvents == 3
\* SpecEscape: the longest text given to escape_str.
MaxEscapeLen == 3

----------------------------------------------------------------------------
(* Text helpers.                                                           *)

Last(s) == s[Len(s)]

Front(s) == SubSeq(s, 1, Len(s) - 1)

starts_with(s, p) == Len(s) >= Len(p) /\ SubSeq(s, 1, Len(p)) = p

ends_with(s, p) == Len(s) >= Len(p) /\ SubSeq(s, Len(s) - Len(p) + 1, Len(s)) = p

strip_prefix(s, p) == SubSeq(s, Len(p) + 1, Len(s))

contains(s, c) == \E i \in 1..Len(s) : s[i] = c

RECURSIVE Spaces(_)
Spaces(n) == IF n <= 0 THEN <<>> ELSE <<32>> \o Spaces(n - 1)

to_ascii_lowercase(c) == IF c \in 65..90 THEN c + 32 ELSE c

lowercase(s) == [i \in 1..Len(s) |-> to_ascii_lowercase(s[i])]

\* char::to_digit(radix): the digit's value, or -1.
to_digit(c, radix) ==
    LET v == IF c \in 48..57 THEN c - 48
             ELSE IF c \in 97..122 THEN c - 97 + 10
             ELSE IF c \in 65..90 THEN c - 65 + 10
             ELSE -1
    IN  IF v >= 0 /\ v < radix THEN v ELSE -1

RECURSIVE digits_value(_, _)
digits_value(s, radix) ==
    IF s = <<>> THEN 0
    ELSE digits_value(Front(s), radix) * radix + to_digit(Last(s), radix)

\* The digits of i64::MAX = 2^63 - 1, or with `negative` of the magnitude 2^63
\* of i64::MIN, in the radixes the program parses: the greatest number
\* from_str_radix takes without PosOverflow or NegOverflow.
i64_limit(radix, negative) ==
    CASE radix = 10 ->
            <<9,2,2,3,3,7,2,0,3,6,8,5,4,7,7,5,8,0>> \o <<IF negative THEN 8 ELSE 7>>
      [] radix = 16 ->
            IF negative THEN <<8>> \o [i \in 1..15 |-> 0] ELSE <<7>> \o [i \in 1..15 |-> 15]
      [] radix = 8 ->
            IF negative THEN <<1>> \o [i \in 1..21 |-> 0] ELSE [i \in 1..21 |-> 7]

\* Digits without their leading zeros.
RECURSIVE significant(_)
significant(ds) ==
    IF ds # <<>> /\ ds[1] = 0 THEN significant(Tail(ds)) ELSE ds

\* a <= b, for the digits of two numbers without leading zeros.
digits_le(a, b) ==
    \/ Len(a) < Len(b)
    \/ /\ Len(a) = Len(b)
       /\ \/ a = b
          \/ \E k \in 1..Len(a) : a[k] < b[k] /\ \A j \in 1..(k - 1) : a[j] = b[j]

\* i64::from_str_radix: an optional sign, then one or more digits of the radix;
\* an error (ok = FALSE) for a number outside -2^63 .. 2^63 - 1.
from_str_radix(s, radix) ==
    LET signed   == s # <<>> /\ s[1] \in {43, 45}    \* '+' '-'
        negative == signed /\ s[1] = 45
        body     == IF signed THEN Tail(s) ELSE s
        good     == body # <<>> /\ \A i \in 1..Len(body) : to_digit(body[i], radix) >= 0
        fits     == /\ good
                    /\ digits_le(significant([i \in 1..Len(body) |-> to_digit(body[i], radix)]),
                                 i64_limit(radix, negative))
        mag      == IF fits THEN digits_value(body, radix) ELSE 0
    IN  [ok |-> fits, val |-> IF negative THEN 0 - mag ELSE mag]

\* str::parse::<i64>
parse_i64(s) == from_str_radix(s, 10)

all_digits(s) == \A i \in 1..Len(s) : s[i] \in 48..57

\* The decimal form str::parse::<f64> accepts once the sign is off:
\* digits [. digits] [(e|E) [sign] digits], with a digit in the mantissa.
decimal_float(r) ==
    \E e \in 0..Len(r) :
        LET mant  == SubSeq(r, 1, e)
            expo  == SubSeq(r, e + 1, Len(r))
            expOk == \/ expo = <<>>
                     \/ /\ expo[1] \in {101, 69}            \* 'e' 'E'
                        /\ LET x == Tail(expo)
                               d == IF x # <<>> /\ x[1] \in {43, 45} THEN Tail(x) ELSE x
                           IN  d # <<>> /\ all_digits(d)
            manOk == \E p \in 0..Len(mant) :
                        LET ip == SubSeq(mant, 1, p)
                            fp == SubSeq(mant, p + 1, Len(mant))
                        IN  /\ all_digits(ip)
                            /\ \/ fp = <<>> /\ ip # <<>>
                               \/ /\ fp # <<>> /\ fp[1] = 46        \* '.'
                                  /\ all_digits(Tail(fp))
                                  /\ Len(ip) + Len(fp) - 1 >= 1
        IN  manOk /\ expOk

\* str::parse::<f64>().is_ok(): an optional sign, then inf, infinity or nan in
\* any case, or a decimal float.
rust_parse_f64_ok(s) ==
    LET r == IF s # <<>> /\ s[1] \in {43, 45} THEN Tail(s) ELSE s
    IN  \/ lowercase(r) \in { <<105,110,102>>,                        \* inf
                              <<105,110,102,105,110,105,116,121>>,     \* infinity
                              <<110,97,110>> }                         \* nan
        \/ decimal_float(r)

\* str::parse::<bool>
parse_bool(s) ==
    [ok  |-> s \in { <<116,114,117,101>>, <<102,97,108,115,101>> },
     val |-> s = <<116,114,117,101>>]

RECURSIVE nat_to_text(_)
nat_to_text(n) ==
    IF n < 10 THEN <<48 + n>> ELSE nat_to_text(n \div 10) \o <<48 + (n % 10)>>

\* Display for i64: base-10, "-" before a negative number.
int_to_text(i) == IF i < 0 THEN <<45>> \o nat_to_text(0 - i) ELSE nat_to_text(i)

----------------------------------------------------------------------------
(* Scalar values (src/scalar.rs) and write events (write_event.rs).        *)

String(t)  == [type |-> "String", text |-> t]
Real(t)    == [type |-> "Real", text |-> t]
Boolean(b) == [type |-> "Boolean", b |-> b]
Integer(i) == [type |-> "Integer", i |-> i]
Null       == [type |-> "Null"]
BadValue   == [type |-> "BadValue"]

Nothing       == [kind |-> "Nothing"]
StreamStart   == [kind |-> "StreamStart"]
StreamEnd     == [kind |-> "StreamEnd"]
DocumentStart == [kind |-> "DocumentStart"]
DocumentEnd   == [kind |-> "DocumentEnd"]
SequenceStart == [kind |-> "SequenceStart"]
SequenceEnd   == [kind |-> "SequenceEnd"]
MappingStart  == [kind |-> "MappingStart"]
MappingEnd    == [kind |-> "MappingEnd"]
Scalar(v)     == [kind |-> "Scalar", value |-> v]

\* ScalarValue::parse_f64
parse_f64_is_some(v) ==
    \/ v \in { <<46,105,110,102>>, <<46,73,110,102>>, <<46,73,78,70>>,             \* .inf .Inf .INF
               <<43,46,105,110,102>>, <<43,46,73,110,102>>, <<43,46,73,78,70>>,   \* +.inf +.Inf +.INF
               <<45,46,105,110,102>>, <<45,46,73,110,102>>, <<45,46,73,78,70>>,   \* -.inf -.Inf -.INF
               <<46,110,97,110>>, <<78,97,78>>, <<46,78,65,78>> }                 \* .nan NaN .NAN
    \/ rust_parse_f64_ok(v)

\* from_cow_str that tries the float grammar before the base-10 integer.
from_cow_str_float_first(v) ==
    LET hex == from_str_radix(strip_prefix(v, <<48,120>>), 16)
        oct == from_str_radix(strip_prefix(v, <<48,111>>), 8)
        pos == parse_i64(strip_prefix(v, <<43>>))
        rest ==
            IF v \in { <<126>>, <<110,117,108,108>> } THEN Null
            ELSE IF v = <<116,114,117,101>> THEN Boolean(TRUE)
            ELSE IF v = <<102,97,108,115,101>> THEN Boolean(FALSE)
            ELSE IF parse_f64_is_some(v) THEN Real(v)
            ELSE IF parse_i64(v).ok THEN Integer(parse_i64(v).val)
            ELSE String(v)
    IN  IF starts_with(v, <<48,120>>)
        THEN (IF hex.ok THEN Integer(hex.val) ELSE rest)
        ELSE IF starts_with(v, <<48,111>>)
        THEN (IF oct.ok THEN Integer(oct.val) ELSE rest)
        ELSE IF starts_with(v, <<43>>)
        THEN (IF pos.ok THEN Integer(pos.val) ELSE rest)
        ELSE rest

\* ScalarValue::from_cow_str
from_cow_str(v) ==
    LET hex == from_str_radix(strip_prefix(v, <<48,120>>), 16)      \* "0x"
        oct == from_str_radix(strip_prefix(v, <<48,111>>), 8)       \* "0o"
        pos == parse_i64(strip_prefix(v, <<43>>))                   \* '+'
        rest ==
            IF v \in { <<126>>, <<110,117,108,108>> } THEN Null     \* "~" "null"
            ELSE IF v = <<116,114,117,101>> THEN Boolean(TRUE)
            ELSE IF v = <<102,97,108,115,101>> THEN Boolean(FALSE)
            ELSE IF parse_i64(v).ok THEN Integer(parse_i64(v).val)
            ELSE IF parse_f64_is_some(v) THEN Real(v)
            ELSE String(v)
    IN  IF starts_with(v, <<48,120>>)
        THEN (IF hex.ok THEN Integer(hex.val) ELSE rest)
        ELSE IF starts_with(v, <<48,111>>)
        THEN (IF oct.ok THEN Integer(oct.val) ELSE rest)
        ELSE IF starts_with(v, <<43>>)
        THEN (IF pos.ok THEN Integer(pos.val) ELSE rest)
        ELSE rest

\* from_scalar_event that looks at the tag before the style.
from_scalar_event_tag_first(value, style, anchor_id, tag) ==
    IF tag.some /\ tag.handle = "tag:yaml.org,2002:" /\ tag.suffix = "bool"
    THEN (IF parse_bool(value).ok THEN Boolean(parse_bool(value).val) ELSE BadValue)
    ELSE IF tag.some /\ tag.handle = "tag:yaml.org,2002:" /\ tag.suffix = "int"
    THEN (IF parse_i64(value).ok THEN Integer(parse_i64(value).val) ELSE BadValue)
    ELSE IF style # "Plain" THEN String(value)
    ELSE from_cow_str(value)

\* from_scalar_event that infers the type of a text its tag does not fit.
from_scalar_event_infer(value, style, anchor_id, tag) ==
    IF style # "Plain" THEN String(value)
    ELSE IF tag.some /\ tag.handle = "tag:yaml.org,2002:"
            /\ tag.suffix \in {"bool", "int", "float", "null"}
    THEN IF tag.suffix = "bool" /\ parse_bool(value).ok
         THEN Boolean(parse_bool(value).val)
         ELSE IF tag.suffix = "int" /\ parse_i64(value).ok
         THEN Integer(parse_i64(value).val)
         ELSE IF tag.suffix = "float" /\ parse_f64_is_some(value) THEN Real(value)
         ELSE IF tag.suffix = "null" /\ value \in { <<126>>, <<110,117,108,108>> }
         THEN Null
         ELSE from_cow_str(value)
    ELSE IF tag.some THEN String(value)
    ELSE from_cow_str(value)

\* ScalarValue::from_scalar_event
from_scalar_event(value, style, anchor_id, tag) ==
    IF style # "Plain" THEN String(value)
    ELSE IF tag.some
    THEN IF tag.handle = "tag:yaml.org,2002:"
         THEN IF tag.suffix = "bool"
              THEN (IF parse_bool(value).ok THEN Boolean(parse_bool(value).val)
                    ELSE BadValue)
              ELSE IF tag.suffix = "int"
              THEN (IF parse_i64(value).ok THEN Integer(parse_i64(value).val)
                    ELSE BadValue)
              ELSE IF tag.suffix = "float"
              THEN (IF parse_f64_is_some(value) THEN Real(value) ELSE BadValue)
              ELSE IF tag.suffix = "null"
              THEN (IF value \in { <<126>>, <<110,117,108,108>> } THEN Null
                    ELSE BadValue)
              ELSE String(value)
         ELSE String(value)
    ELSE from_cow_str(value)                        \* from_string

\* The parser's Event (crate::Event), as far as write_event.rs reads it.
NoTag == [some |-> FALSE]
Tag(handle, suffix) == [some |-> TRUE, handle |-> handle, suffix |-> suffix]

Event_Plain(name) == [event |-> name]
Event_SequenceStart(anchor_id, tag) ==
    [event |-> "SequenceStart", anchor_id |-> anchor_id, tag |-> tag]
Event_MappingStart(anchor_id, tag) ==
    [event |-> "MappingStart", anchor_id |-> anchor_id, tag |-> tag]
Event_Alias(anchor_id) == [event |-> "Alias", anchor_id |-> anchor_id]
Event_Scalar(value, style, anchor_id, tag) ==
    [event |-> "Scalar", value |-> value, style |-> style,
     anchor_id |-> anchor_id, tag |-> tag]

\* What into gives when it does not return: todo!() panics.
Panic == [kind |-> "panic"]

\* Into that takes an alias for no event.
Into_alias_nothing(e) ==
    IF e.event = "Alias" THEN Nothing
    ELSE IF e.event = "Scalar"
    THEN Scalar(from_scalar_event(e.value, e.style, e.anchor_id, e.tag))
    ELSE [kind |-> e.event]

\* impl Into<WriteEvent> for Event
Into(e) ==
    IF e.event = "Nothing" THEN Nothing
    ELSE IF e.event = "StreamStart" THEN StreamStart
    ELSE IF e.event = "StreamEnd" THEN StreamEnd
    ELSE IF e.event = "DocumentStart" THEN DocumentStart
    ELSE IF e.event = "DocumentEnd" THEN DocumentEnd
    ELSE IF e.event = "SequenceStart" THEN SequenceStart
    ELSE IF e.event = "SequenceEnd" THEN SequenceEnd
    ELSE IF e.event = "MappingStart" THEN MappingStart
    ELSE IF e.event = "MappingEnd" THEN MappingEnd
    ELSE IF e.event = "Alias" THEN Panic
    ELSE Scalar(from_scalar_event(e.value, e.style, e.anchor_id, e.tag))

----------------------------------------------------------------------------
(* Results of event (write_error.rs, writer_state_error.rs).               *)

Ok == [kind |-> "Ok"]
FmtError == [kind |-> "FmtError"]
new_state_error(state_type, event) ==
    [kind |-> "StateError", state_type |-> state_type, event |-> event]

----------------------------------------------------------------------------
(* The writer while one call of event runs: m.out, m.level and m.stack are *)
(* the writer's fields, m.res is Ok until a `?` returns an error, and      *)
(* m.budget is the number of writes the sink still takes before it fails   *)
(* one (-1: it never fails).  A failed write adds nothing to the sink.     *)
(* Every step after an error is skipped, as after `?`.                     *)

\* fmt::Write::write_str on the sink
write_str(m, text) ==
    IF m.res.kind # "Ok" THEN m
    ELSE IF m.budget = 0 THEN [m EXCEPT !.res = FmtError]
    ELSE [m EXCEPT !.out = @ \o text,
                   !.budget = IF @ > 0 THEN @ - 1 ELSE @]

\* writeln!(parent.writer())
writeln(m) == write_str(m, <<10>>)

\* YamlWriter::stack_push
stack_push(m, frame) ==
    IF m.res.kind # "Ok" THEN m ELSE [m EXCEPT !.stack = Append(@, frame)]

\* parent.level += d
level_add(m, d) ==
    IF m.res.kind # "Ok" THEN m ELSE [m EXCEPT !.level = @ + d]

\* return Err(WriteError::new_state_error(..))
fail_state(m, state_type, event) ==
    IF m.res.kind # "Ok" THEN m
    ELSE [m EXCEPT !.res = new_state_error(state_type, event)]

\* unreachable!(): the call of event panics
unreachable(m) ==
    IF m.res.kind # "Ok" THEN m ELSE [m EXCEPT !.res = Panic]

\* write!(parent.writer(), "{v}") for an i64: Display writes the sign of a
\* negative number and its digits with two calls of write_str.
write_int(m, i) ==
    IF i < 0 THEN write_str(write_str(m, <<45>>), Tail(int_to_text(i)))
    ELSE write_str(m, int_to_text(i))

ident_size == 2

RECURSIVE write_spaces(_, _)
write_spaces(m, n) ==
    IF n <= 0 THEN m ELSE write_spaces(write_str(m, <<32>>), n - 1)

\* write_indent that writes one space per level.
write_indent_narrow(m) ==
    IF m.level <= 0 THEN m ELSE write_spaces(m, m.level)

\* YamlWriter::write_indent
write_indent(m) ==
    IF m.level <= 0 THEN m ELSE write_spaces(m, m.level * ident_size)

----------------------------------------------------------------------------
(* Lexical policy (write_stack.rs).                                        *)

\* need_quotes
need_quotes(string) ==
    \/ string = <<>>
    \/ string[1] = 32 \/ Last(string) = 32                      \* need_quotes_spaces
    \/ string[1] \in {38, 42, 63, 124, 45, 60, 62, 61, 33, 37, 64}
                                                \* & * ? | - < > = ! % @
    \/ \E i \in 1..Len(string) :
          string[i] \in {58, 123, 125, 91, 93, 44, 35, 96, 34, 39, 92}
                                                \* : { } [ ] , # ` " ' \
                        \cup (0..6) \cup {9, 10, 13} \cup (14..26) \cup (28..31)
    \/ string \in {
          <<121,101,115>>, <<89,101,115>>, <<89,69,83>>,            \* yes Yes YES
          <<110,111>>, <<78,111>>, <<78,79>>,                       \* no No NO
          <<84,114,117,101>>, <<84,82,85,69>>, <<116,114,117,101>>, \* True TRUE true
          <<70,97,108,115,101>>, <<70,65,76,83,69>>,                \* False FALSE
          <<102,97,108,115,101>>,                                   \* false
          <<111,110>>, <<79,110>>, <<79,78>>,                       \* on On ON
          <<111,102,102>>, <<79,102,102>>, <<79,70,70>>,            \* off Off OFF
          <<110,117,108,108>>, <<78,117,108,108>>, <<78,85,76,76>>, \* null Null NULL
          <<126>> }                                                 \* ~
    \/ string[1] = 46                                               \* '.'
    \/ starts_with(string, <<48,120>>)                              \* "0x"
    \/ parse_i64(string).ok
    \/ rust_parse_f64_ok(string)

hex_digit(n) == IF n < 10 THEN 48 + n ELSE 97 + (n - 10)

\* The match of escape_str without the arm of the backslash.
escaped_raw_backslash(byte) ==
    IF byte = 34 THEN <<92,34>>
    ELSE IF byte = 8 THEN <<92,98>>
    ELSE IF byte = 9 THEN <<92,116>>
    ELSE IF byte = 10 THEN <<92,110>>
    ELSE IF byte = 12 THEN <<92,102>>
    ELSE IF byte = 13 THEN <<92,114>>
    ELSE IF byte \in 0..31 \/ byte = 127
         THEN <<92,117,48,48, hex_digit(byte \div 16), hex_digit(byte % 16)>>
    ELSE <<>>

\* The match of escape_str: the escape of a byte, or <<>> for `continue`.
escaped(byte) ==
    IF byte = 34 THEN <<92,34>>                     \* \"
    ELSE IF byte = 92 THEN <<92,92>>                \* \\
    ELSE IF byte = 8 THEN <<92,98>>                 \* \b
    ELSE IF byte = 9 THEN <<92,116>>                \* \t
    ELSE IF byte = 10 THEN <<92,110>>               \* \n
    ELSE IF byte = 12 THEN <<92,102>>               \* \f
    ELSE IF byte = 13 THEN <<92,114>>               \* \r
    ELSE IF byte \in 0..31 \/ byte = 127
         THEN <<92,117,48,48, hex_digit(byte \div 16), hex_digit(byte % 16)>>  \* \u00XX
    ELSE <<>>

\* The loop of escape_str from byte i on (1-based), `start` the first byte not
\* yet written.
RECURSIVE escape_loop(_, _, _, _)
escape_loop(m, v, start, i) ==
    IF i > Len(v)
    THEN (IF start # Len(v) + 1 THEN write_str(m, SubSeq(v, start, Len(v))) ELSE m)
    ELSE IF escaped(v[i]) = <<>>
    THEN escape_loop(m, v, start, i + 1)
    ELSE LET m1 == IF start < i THEN write_str(m, SubSeq(v, start, i - 1)) ELSE m
         IN  escape_loop(write_str(m1, escaped(v[i])), v, i + 1, i + 1)

\* escape_str
escape_str(m, v) == write_str(escape_loop(write_str(m, <<34>>), v, 1, 1), <<34>>)

\* char_traits::is_valid_literal_block_scalar, "is this text representable as
\* a literal block scalar".  It rejects a text with a trailing line of only
\* whitespace: a line that starts with a space or a tab and has nothing but
\* spaces, tabs and newlines from there to the end of the text.  It rejects
\* what the lines of a block cannot hold: a carriage return (a line break of
\* its own in a block, and dropped before "\n" by str::lines) and every other
\* character that is not a tab, a newline or printable.
is_valid_literal_block_scalar(v) ==
    /\ ~\E i \in 1..Len(v) :
            /\ i = 1 \/ v[i - 1] = 10
            /\ v[i] \in {9, 32}
            /\ \A j \in i..Len(v) : v[j] \in {9, 10, 32}
    /\ \A i \in 1..Len(v) : v[i] \in {9, 10} \cup (32..126)

\* str::lines: split at "\n", a "\r" right before it dropped, no last empty line.
RECURSIVE lines(_)
lines(v) ==
    IF v = <<>> THEN <<>>
    ELSE IF ~contains(v, 10)
    THEN <<v>>
    ELSE LET n    == CHOOSE i \in 1..Len(v) : v[i] = 10 /\ \A j \in 1..(i - 1) : v[j] # 10
             line == SubSeq(v, 1, n - 1)
             cut  == IF line # <<>> /\ Last(line) = 13 THEN Front(line) ELSE line
         IN  <<cut>> \o lines(SubSeq(v, n + 1, Len(v)))

\* The loop of write_literal_block.
RECURSIVE write_lines(_, _)
write_lines(m, ls) ==
    IF ls = <<>> THEN m
    ELSE write_lines(write_str(write_indent(writeln(m)), Head(ls)), Tail(ls))

\* write_literal_block that writes the lines at the level of the header.
write_literal_block_flat(m, v) ==
    LET m1 == IF ends_with(v, <<10>>) THEN write_str(m, <<124>>)
              ELSE write_str(m, <<124,45>>)
    IN  write_lines(m1, lines(v))

\* write_literal_block
write_literal_block(m, v) ==
    LET m1 == IF ends_with(v, <<10>>) THEN write_str(m, <<124>>)     \* "|"
              ELSE write_str(m, <<124,45>>)                         \* "|-"
    IN  level_add(write_lines(level_add(m1, 1), lines(v)), -1)

\* run_scalar that writes every String that is not a literal block as it is.
run_scalar_unquoted(m, scalar_value) ==
    IF scalar_value.type = "String"
    THEN LET v == scalar_value.text
         IN  IF multiline_strings /\ contains(v, 10) /\ is_valid_literal_block_scalar(v)
             THEN write_literal_block(m, v)
             ELSE write_str(m, v)
    ELSE IF scalar_value.type = "Boolean"
    THEN (IF scalar_value.b THEN write_str(m, <<116,114,117,101>>)
          ELSE write_str(m, <<102,97,108,115,101>>))
    ELSE IF scalar_value.type = "Integer"
    THEN write_int(m, scalar_value.i)
    ELSE IF scalar_value.type = "Real"
    THEN write_str(m, scalar_value.text)
    ELSE write_str(m, <<126>>)

\* run_scalar that quotes a Real as it quotes a String.
run_scalar_quote_real(m, scalar_value) ==
    IF scalar_value.type = "String"
    THEN LET v == scalar_value.text
         IN  IF multiline_strings /\ contains(v, 10) /\ is_valid_literal_block_scalar(v)
             THEN write_literal_block(m, v)
             ELSE IF need_quotes(v) THEN escape_str(m, v)
             ELSE write_str(m, v)
    ELSE IF scalar_value.type = "Boolean"
    THEN (IF scalar_value.b THEN write_str(m, <<116,114,117,101>>)
          ELSE write_str(m, <<102,97,108,115,101>>))
    ELSE IF scalar_value.type = "Integer"
    THEN write_int(m, scalar_value.i)
    ELSE IF scalar_value.type = "Real"
    THEN (IF need_quotes(scalar_value.text) THEN escape_str(m, scalar_value.text)
          ELSE write_str(m, scalar_value.text))
    ELSE write_str(m, <<126>>)

\* run_scalar
run_scalar(m, scalar_value) ==
    IF scalar_value.type = "String"
    THEN LET v == scalar_value.text
         IN  IF multiline_strings /\ contains(v, 10) /\ is_valid_literal_block_scalar(v)
             THEN write_literal_block(m, v)
             ELSE IF need_quotes(v) THEN escape_str(m, v)
             ELSE write_str(m, v)
    ELSE IF scalar_value.type = "Boolean"
    THEN (IF scalar_value.b THEN write_str(m, <<116,114,117,101>>)
          ELSE write_str(m, <<102,97,108,115,101>>))
    ELSE IF scalar_value.type = "Integer"
    THEN write_int(m, scalar_value.i)
    ELSE IF scalar_value.type = "Real"
    THEN write_str(m, scalar_value.text)
    ELSE write_str(m, <<126>>)                                      \* "~"

----------------------------------------------------------------------------
(* Stack frames and their run (write_stack.rs).                            *)

StartFrame == [kind |-> "Start"]
EndFrame == [kind |-> "End"]
DocsFrame(first) == [kind |-> "Docs", first |-> first]
DocFrame == [kind |-> "Doc"]
DocEndFrame == [kind |-> "DocEnd"]
SequenceFrame(first) == [kind |-> "Sequence", first |-> first]
MappingFrame(first) == [kind |-> "Mapping", first |-> first]
MappingItemValueFrame(complex_key) ==
    [kind |-> "MappingItemValue", complex_key |-> complex_key]
ValSequenceFrame(inline) == [kind |-> "ValSequence", inline |-> inline]
ValMappingFrame(inline) == [kind |-> "ValMapping", inline |-> inline]

\* The match arm of a node that also takes the end of a collection.
is_node_start_or_end(event) ==
    event.kind \in {"SequenceStart", "MappingStart", "Scalar", "SequenceEnd", "MappingEnd"}

\* WriteEvent::SequenceStart | WriteEvent::MappingStart | WriteEvent::Scalar(_)
is_node_start(event) == event.kind \in {"SequenceStart", "MappingStart", "Scalar"}

\* StartFrame::run
StartFrame_run(m, event) ==
    IF event.kind = "StreamStart" THEN stack_push(m, DocsFrame(TRUE))
    ELSE fail_state(m, "Start", event)

\* EndFrame::run that lets a new stream start.
EndFrame_run_restart(m, event) ==
    IF event.kind = "StreamStart" THEN stack_push(m, DocsFrame(TRUE))
    ELSE fail_state(m, "End", event)

\* EndFrame::run
EndFrame_run(m, event) == fail_state(m, "End", event)

\* DocsFrame::run that writes the separator of a later document without the
\* newline that ends the document before it.
DocsFrame_run_no_newline(first, m, event) ==
    IF event.kind = "DocumentStart"
    THEN LET m2 == IF ~first \/ ~omit_first_doc_separator
                   THEN write_str(m, <<45,45,45,10>>)
                   ELSE m
         IN  stack_push(stack_push(m2, DocsFrame(FALSE)), DocFrame)
    ELSE IF event.kind = "StreamEnd" THEN stack_push(m, EndFrame)
    ELSE fail_state(m, "DocumentList", event)

\* DocsFrame::run that consults omit_first_doc_separator for every document.
DocsFrame_run_omit_all(first, m, event) ==
    IF event.kind = "DocumentStart"
    THEN LET m1 == IF ~first THEN writeln(m) ELSE m
             m2 == IF ~omit_first_doc_separator
                   THEN write_str(m1, <<45,45,45,10>>)
                   ELSE m1
         IN  stack_push(stack_push(m2, DocsFrame(FALSE)), DocFrame)
    ELSE IF event.kind = "StreamEnd" THEN stack_push(m, EndFrame)
    ELSE fail_state(m, "DocumentList", event)

\* DocsFrame::run that leaves nothing on the stack at StreamEnd.
DocsFrame_run_no_end(first, m, event) ==
    IF event.kind = "DocumentStart"
    THEN LET m1 == IF ~first THEN writeln(m) ELSE m
             m2 == IF ~first \/ ~omit_first_doc_separator
                   THEN write_str(m1, <<45,45,45,10>>)
                   ELSE m1
         IN  stack_push(stack_push(m2, DocsFrame(FALSE)), DocFrame)
    ELSE IF event.kind = "StreamEnd" THEN m
    ELSE fail_state(m, "DocumentList", event)

\* DocsFrame::run
DocsFrame_run(first, m, event) ==
    IF event.kind = "DocumentStart"
    THEN LET m1 == IF ~first THEN writeln(m) ELSE m
             m2 == IF ~first \/ ~omit_first_doc_separator
                   THEN write_str(m1, <<45,45,45,10>>)              \* "---\n"
                   ELSE m1
         IN  stack_push(stack_push(m2, DocsFrame(FALSE)), DocFrame)
    ELSE IF event.kind = "StreamEnd" THEN stack_push(m, EndFrame)
    ELSE fail_state(m, "DocumentList", event)

\* run_node; unreachable!() for the events the callers do not pass
run_node(m, event) ==
    IF event.kind = "SequenceStart" THEN stack_push(m, SequenceFrame(TRUE))
    ELSE IF event.kind = "MappingStart" THEN stack_push(m, MappingFrame(TRUE))
    ELSE IF event.kind = "Scalar" THEN run_scalar(m, event.value)
    ELSE unreachable(m)

\* DocFrame::run that pushes no DocEnd frame under the root node.
DocFrame_run_no_doc_end(m, event) ==
    IF is_node_start(event) THEN run_node(m, event)
    ELSE IF event.kind = "DocumentEnd" THEN m
    ELSE fail_state(m, "Document", event)

\* DocFrame::run
DocFrame_run(m, event) ==
    IF is_node_start(event) THEN run_node(stack_push(m, DocEndFrame), event)
    ELSE IF event.kind = "DocumentEnd" THEN m
    ELSE fail_state(m, "Document", event)

\* DocEndFrame::run without its error branch.
DocEndFrame_run_any(m, event) == m

\* DocEndFrame::run
DocEndFrame_run(m, event) ==
    IF event.kind = "DocumentEnd" THEN m
    ELSE fail_state(m, "DocumentEnd", event)

\* run_val; unreachable!() for the events the callers do not pass
run_val(m, event, inline) ==
    IF event.kind = "SequenceStart" THEN stack_push(m, ValSequenceFrame(inline))
    ELSE IF event.kind = "MappingStart" THEN stack_push(m, ValMappingFrame(inline))
    ELSE IF event.kind = "Scalar" THEN run_scalar(write_str(m, <<32>>), event.value)
    ELSE unreachable(m)

\* SequenceFrame::run that leaves the level alone at the first item.
SequenceFrame_run_no_level(first, m, event) ==
    IF is_node_start(event)
    THEN LET m1 == IF first THEN m ELSE write_indent(writeln(m))
             m2 == stack_push(write_str(m1, <<45>>), SequenceFrame(FALSE))
         IN  run_val(m2, event, TRUE)
    ELSE IF event.kind = "SequenceEnd"
    THEN (IF first THEN write_str(m, <<91,93>>) ELSE level_add(m, -1))
    ELSE fail_state(m, "Sequence", event)

\* SequenceFrame::run
SequenceFrame_run(first, m, event) ==
    IF is_node_start(event)
    THEN LET m1 == IF first THEN level_add(m, 1) ELSE write_indent(writeln(m))
             m2 == stack_push(write_str(m1, <<45>>), SequenceFrame(FALSE))   \* "-"
         IN  run_val(m2, event, TRUE)
    ELSE IF event.kind = "SequenceEnd"
    THEN (IF first THEN write_str(m, <<91,93>>) ELSE level_add(m, -1))       \* "[]"
    ELSE fail_state(m, "Sequence", event)

\* MappingFrame::run that keeps the level at MappingEnd.
MappingFrame_run_keep_level(first, m, event) ==
    IF is_node_start(event)
    THEN LET m1 == IF first THEN level_add(m, 1) ELSE write_indent(writeln(m))
             complex_key == event.kind \in {"SequenceStart", "MappingStart"}
             m2 == stack_push(m1, MappingItemValueFrame(complex_key))
         IN  IF complex_key THEN run_val(write_str(m2, <<63>>), event, TRUE)
             ELSE run_node(m2, event)
    ELSE IF event.kind = "MappingEnd"
    THEN (IF first THEN write_str(m, <<123,125>>) ELSE m)
    ELSE fail_state(m, "Mapping", event)

\* MappingFrame::run
MappingFrame_run(first, m, event) ==
    IF is_node_start(event)
    THEN LET m1 == IF first THEN level_add(m, 1) ELSE write_indent(writeln(m))
             complex_key == event.kind \in {"SequenceStart", "MappingStart"}
             m2 == stack_push(m1, MappingItemValueFrame(complex_key))
         IN  IF complex_key THEN run_val(write_str(m2, <<63>>), event, TRUE) \* "?"
             ELSE run_node(m2, event)
    ELSE IF event.kind = "MappingEnd"
    THEN (IF first THEN write_str(m, <<123,125>>) ELSE level_add(m, -1))     \* "{}"
    ELSE fail_state(m, "Mapping", event)

\* MappingItemValueFrame::run that places every value inline.
MappingItemValueFrame_run_inline(complex_key, m, event) ==
    IF is_node_start(event)
    THEN LET m1 == IF complex_key THEN write_indent(writeln(m)) ELSE m
             m2 == stack_push(write_str(m1, <<58>>), MappingFrame(FALSE))
         IN  run_val(m2, event, TRUE)
    ELSE fail_state(m, "MappingEntryValue", event)

\* MappingItemValueFrame::run that writes ":" where the key ended.
MappingItemValueFrame_run_same_line(complex_key, m, event) ==
    IF is_node_start(event)
    THEN LET m2 == stack_push(write_str(m, <<58>>), MappingFrame(FALSE))
         IN  run_val(m2, event, complex_key)
    ELSE fail_state(m, "MappingEntryValue", event)

\* MappingItemValueFrame::run that reports the error of MappingFrame.
MappingItemValueFrame_run_as_mapping(complex_key, m, event) ==
    IF is_node_start(event)
    THEN LET m1 == IF complex_key THEN write_indent(writeln(m)) ELSE m
             m2 == stack_push(write_str(m1, <<58>>), MappingFrame(FALSE))
         IN  run_val(m2, event, complex_key)
    ELSE fail_state(m, "Mapping", event)

\* MappingItemValueFrame::run
MappingItemValueFrame_run(complex_key, m, event) ==
    IF is_node_start(event)
    THEN LET m1 == IF complex_key THEN write_indent(writeln(m)) ELSE m
             m2 == stack_push(write_str(m1, <<58>>), MappingFrame(FALSE))    \* ":"
         IN  run_val(m2, event, complex_key)
    ELSE fail_state(m, "MappingEntryValue", event)

\* place_val that does not look at is_empty.
place_val_no_empty(inline, m, is_empty) ==
    IF inline /\ compact
    THEN write_str(m, <<32>>)
    ELSE level_add(write_indent(level_add(writeln(m), 1)), -1)

\* place_val that does not look at compact.
place_val_no_compact(inline, m, is_empty) ==
    IF inline \/ is_empty
    THEN write_str(m, <<32>>)
    ELSE level_add(write_indent(level_add(writeln(m), 1)), -1)

\* The placement ValSequenceFrame::run and ValMappingFrame::run share: one
\* space, or a new line indented one level deeper.
place_val(inline, m, is_empty) ==
    IF (inline /\ compact) \/ is_empty
    THEN write_str(m, <<32>>)
    ELSE level_add(write_indent(level_add(writeln(m), 1)), -1)

\* ValSequenceFrame::run that places the value before it looks at the event.
ValSequenceFrame_run_place_first(inline, m, event) ==
    LET m1 == place_val(inline, m, event.kind = "SequenceEnd")
    IN  IF ~(is_node_start(event) \/ event.kind = "SequenceEnd")
        THEN fail_state(m1, "Sequence", event)
        ELSE SequenceFrame_run(TRUE, m1, event)

\* ValSequenceFrame::run
ValSequenceFrame_run(inline, m, event) ==
    IF ~(is_node_start(event) \/ event.kind = "SequenceEnd")
    THEN fail_state(m, "Sequence", event)
    ELSE SequenceFrame_run(TRUE, place_val(inline, m, event.kind = "SequenceEnd"), event)

\* ValMappingFrame::run
ValMappingFrame_run(inline, m, event) ==
    IF ~(is_node_start(event) \/ event.kind = "MappingEnd")
    THEN fail_state(m, "Mapping", event)
    ELSE MappingFrame_run(TRUE, place_val(inline, m, event.kind = "MappingEnd"), event)

\* StackFrame::run
StackFrame_run(frame, m, event) ==
    CASE frame.kind = "Start"            -> StartFrame_run(m, event)
      [] frame.kind = "End"              -> EndFrame_run(m, event)
      [] frame.kind = "Docs"             -> DocsFrame_run(frame.first, m, event)
      [] frame.kind = "Doc"              -> DocFrame_run(m, event)
      [] frame.kind = "DocEnd"           -> DocEndFrame_run(m, event)
      [] frame.kind = "Sequence"         -> SequenceFrame_run(frame.first, m, event)
      [] frame.kind = "Mapping"          -> MappingFrame_run(frame.first, m, event)
      [] frame.kind = "MappingItemValue" -> MappingItemValueFrame_run(frame.complex_key, m, event)
      [] frame.kind = "ValSequence"      -> ValSequenceFrame_run(frame.inline, m, event)
      [] frame.kind = "ValMapping"       -> ValMappingFrame_run(frame.inline, m, event)

----------------------------------------------------------------------------
(* The writer (writer.rs).                                                 *)

\* YamlWriter::new
Init ==
    /\ stack = <<StartFrame>>
    /\ level = -1
    /\ out = <<>>
    /\ compact = TRUE
    /\ multiline_strings = TRUE
    /\ omit_first_doc_separator = TRUE
    /\ result = [kind |-> "None"]
    /\ accepted = <<>>
    /\ errored = FALSE
    /\ after_error = FALSE
    /\ conversion = [from |-> [event |-> "None"], to |-> [kind |-> "None"]]

\* run_event that runs the top frame without taking it off the stack.
run_event_no_pop(ev, budget) ==
    IF stack = <<>>
    THEN [out |-> out, level |-> level, stack |-> stack, budget |-> budget,
          res |-> new_state_error("ExistingError", ev)]
    ELSE LET m == StackFrame_run(Last(stack),
                                 [out |-> out, level |-> level, stack |-> stack,
                                  budget |-> budget, res |-> Ok],
                                 ev)
         IN  IF m.res.kind # "Ok" THEN [m EXCEPT !.stack = <<>>] ELSE m

\* run_event without self.stack.clear().
run_event_keep(ev, budget) ==
    IF stack = <<>>
    THEN [out |-> out, level |-> level, stack |-> stack, budget |-> budget,
          res |-> new_state_error("ExistingError", ev)]
    ELSE StackFrame_run(Last(stack),
                        [out |-> out, level |-> level, stack |-> Front(stack),
                         budget |-> budget, res |-> Ok],
                        ev)

\* run_event that clears the stack after a state error only: after an error of
\* the sink the frames under the one that ran stay.
run_event_clear_on_state_error(ev, budget) ==
    IF stack = <<>>
    THEN [out |-> out, level |-> level, stack |-> stack, budget |-> budget,
          res |-> new_state_error("ExistingError", ev)]
    ELSE LET m == StackFrame_run(Last(stack),
                                 [out |-> out, level |-> level, stack |-> Front(stack),
                                  budget |-> budget, res |-> Ok],
                                 ev)
         IN  IF m.res.kind = "StateError" THEN [m EXCEPT !.stack = <<>>] ELSE m

\* The writer after the call event(ev) whose sink takes `budget` writes and
\* fails the next one (-1: never fails).
run_event(ev, budget) ==
    IF stack = <<>>
    THEN [out |-> out, level |-> level, stack |-> stack, budget |-> budget,
          res |-> new_state_error("ExistingError", ev)]
    ELSE LET m == StackFrame_run(Last(stack),
                                 [out |-> out, level |-> level, stack |-> Front(stack),
                                  budget |-> budget, res |-> Ok],
                                 ev)
         IN  IF m.res.kind \in {"FmtError", "StateError"} THEN [m EXCEPT !.stack = <<>>] ELSE m

\* event that puts compact back to its default when the call fails.
event_reset_config(ev, budget) ==
    LET m == run_event(ev, budget)
    IN  /\ stack' = m.stack
        /\ level' = m.level
        /\ out' = m.out
        /\ result' = m.res
        /\ accepted' = IF m.res.kind = "Ok" THEN Append(accepted, ev) ELSE accepted
        /\ errored' = (errored \/ m.res.kind # "Ok")
        /\ after_error' = errored
        /\ compact' = (compact \/ m.res.kind # "Ok")
        /\ UNCHANGED <<multiline_strings, omit_first_doc_separator>>

\* YamlWriter::event
event(ev, budget) ==
    LET m == run_event(ev, budget)
    IN  /\ stack' = m.stack
        /\ level' = m.level
        /\ out' = m.out
        /\ result' = m.res
        /\ accepted' = IF m.res.kind = "Ok" THEN Append(accepted, ev) ELSE accepted
        /\ errored' = (errored \/ m.res.kind # "Ok")
        /\ after_error' = errored
        /\ UNCHANGED config

\* YamlWriter::compact
set_compact(b) ==
    /\ compact' = b
    /\ UNCHANGED <<stack, level, out, multiline_strings, omit_first_doc_separator,
                   result, accepted, errored, after_error, conversion>>

\* YamlWriter::multiline_strings
set_multiline_strings(b) ==
    /\ multiline_strings' = b
    /\ UNCHANGED <<stack, level, out, compact, omit_first_doc_separator,
                   result, accepted, errored, after_error, conversion>>

\* YamlWriter::omit_first_doc_separator
set_omit_first_doc_separator(b) ==
    /\ omit_first_doc_separator' = b
    /\ UNCHANGED <<stack, level, out, compact, multiline_strings,
                   result, accepted, errored, after_error, conversion>>

----------------------------------------------------------------------------
(* The callers.  Every specification starts from a new writer and calls    *)
(* event and the setters; they differ in the events the caller draws from. *)

\* Calls of event while fewer than `max` have returned Ok.
Drive(max, events, budgets) ==
    /\ Len(accepted) < max
    /\ \E ev \in events, budget \in budgets : event(ev, budget)
    /\ UNCHANGED conversion

StructureEvents == { Nothing, StreamStart, StreamEnd, DocumentStart, DocumentEnd,
                     SequenceStart, SequenceEnd, MappingStart, MappingEnd }

\* Spec: any event, any setter, a sink that may fail.
Events == StructureEvents \cup { Scalar(String(<<97>>)), Scalar(Null) }     \* a, ~

SinkBudgets == -1..MaxSinkWrites

Next ==
    \/ Drive(MaxEvents, Events, SinkBudgets)
    \/ \E b \in BOOLEAN : set_compact(b)
    \/ \E b \in BOOLEAN : set_multiline_strings(b)
    \/ \E b \in BOOLEAN : set_omit_first_doc_separator(b)

Spec == Init /\ [][Next]_vars

\* SpecDocs: streams of documents that hold at most a scalar; the caller
\* configures the writer before its first event, as round_trip_test does.
DocEvents == { StreamStart, StreamEnd, DocumentStart, DocumentEnd,
               Scalar(String(<<97>>)), Scalar(String(<<98>>)), Scalar(String(<<99>>)) }  \* a b c

NextDocs ==
    \/ Drive(MaxDocEvents, DocEvents, {-1})
    \/ \E b \in BOOLEAN :
          accepted = <<>> /\ ~errored /\ set_omit_first_doc_separator(b)

SpecDocs == Init /\ [][NextDocs]_vars

\* SpecNodes: one document of nested sequences and mappings.
NodeEvents == { StreamStart, DocumentStart, SequenceStart, SequenceEnd,
                MappingStart, MappingEnd,
                Scalar(Integer(1)), Scalar(Integer(2)), Scalar(Integer(3)) }

NextNodes ==
    \/ Drive(MaxNodeEvents, NodeEvents, {-1})
    \/ \E b \in BOOLEAN : set_compact(b)

SpecNodes == Init /\ [][NextNodes]_vars

\* SpecScalar: one String scalar at the root of a document, in a sequence or
\* in a mapping, among Integer scalars; the caller stops at the first error
\* and after the String scalar.
Alphabet == {97, 32, 10, 48, 55, 111, 43, 45}                    \* a ' ' \n 0 7 o + -

Literals == {
    <<116,114,117,101>>, <<102,97,108,115,101>>, <<110,117,108,108>>,   \* true false null
    <<126>>, <<121,101,115>>, <<78,111>>, <<79,78>>,                    \* ~ yes No ON
    <<121>>, <<89>>, <<110>>, <<78>>,                                   \* y Y n N
    <<104,101,108,108,111>>, <<102,111,111>>,                           \* hello foo
    <<49,50,51>>, <<52,50>>, <<51,46,49,52>>, <<49,50,101,55>>,         \* 123 42 3.14 12e7
    <<48,120,50,65>>, <<48,111,53,50>>, <<43,49,50>>,                   \* 0x2A 0o52 +12
    <<46,105,110,102>>, <<43,46,105,110,102>>, <<45,46,73,78,70>>,      \* .inf +.inf -.INF
    <<46,110,97,110>>, <<78,97,78>>, <<105,110,102>>,                   \* .nan NaN inf
    <<50,48,49,52,45,49,50,45,51,49>>,                                  \* 2014-12-31
    <<97,34,98>>, <<97,92,98>>, <<97,58,98>>, <<38,97>>,                \* a"b a\b a:b &a
    <<108,105,110,101,49,10,108,105,110,101,50,10>>,                    \* "line1\nline2\n"
    <<97,10,98,32>>, <<32,97,10,98>>, <<97,10,10,98>>,                  \* "a\nb " " a\nb" "a\n\nb"
    <<97,10,7>>, <<97,13,10,98>> }                                      \* "a\n\x07" "a\r\nb"

ScalarTexts == UNION { [1..k -> Alphabet] : k \in 0..MaxStrLen } \cup Literals

ContextEvents == { StreamStart, DocumentStart, SequenceStart, MappingStart,
                   Scalar(Integer(1)) }

NoStringYet ==
    \A i \in 1..Len(accepted) :
        accepted[i].kind = "Scalar" => accepted[i].value.type # "String"

NextScalar ==
    \/ ~errored /\ NoStringYet /\ Drive(MaxScalarEvents, ContextEvents, {-1})
    \/ /\ ~errored /\ NoStringYet
       /\ Drive(MaxScalarEvents, { Scalar(String(t)) : t \in ScalarTexts }, {-1})
    \/ \E b \in BOOLEAN : set_multiline_strings(b)

SpecScalar == Init /\ [][NextScalar]_vars

\* SpecTyped: one document of scalars that are not Strings, in sequences and
\* mappings, under every configuration; the caller stops at the first error.
TypedScalars == { Scalar(Boolean(TRUE)), Scalar(Boolean(FALSE)),
                  Scalar(Integer(-12)), Scalar(Integer(0)),
                  Scalar(Real(<<51,46,49,52>>)), Scalar(Real(<<46,105,110,102>>)),  \* 3.14 .inf
                  Scalar(Null), Scalar(BadValue) }

TypedEvents == { StreamStart, DocumentStart, SequenceStart, SequenceEnd,
                 MappingStart, MappingEnd } \cup TypedScalars

NextTyped ==
    \/ ~errored /\ Drive(MaxTypedEvents, TypedEvents, {-1})
    \/ \E b \in BOOLEAN : ~errored /\ set_compact(b)
    \/ \E b \in BOOLEAN : ~errored /\ set_multiline_strings(b)
    \/ \E b \in BOOLEAN : ~errored /\ set_omit_first_doc_separator(b)

SpecTyped == Init /\ [][NextTyped]_vars

\* SpecConvert: the loop of round_trip_test: each parser Event is converted
\* and the WriteEvent given to the writer; a panic of the conversion and an
\* error of the writer (expect) end the run.
ConvertTexts == {
    <<>>, <<97,98,99>>, <<121,101,115>>,                            \* "" abc yes
    <<116,114,117,101>>, <<102,97,108,115,101>>, <<84,114,117,101>>, \* true false True
    <<126>>, <<110,117,108,108>>, <<78,117,108,108>>,               \* ~ null Null
    <<52,50>>, <<45,55>>, <<43,49,50>>, <<43,45,55>>,               \* 42 -7 +12 +-7
    <<48,120,50,65>>, <<48,120,45,49>>, <<48,120>>, <<48,120,71>>,  \* 0x2A 0x-1 0x 0xG
    <<48,111,53,50>>, <<48,111,56>>,                                \* 0o52 0o8
    <<51,46,49,52>>, <<49,101,51>>, <<52,50,46>>, <<46,53>>,        \* 3.14 1e3 42. .5
    <<46,105,110,102>>, <<43,46,105,110,102>>, <<78,97,78>>,        \* .inf +.inf NaN
    <<105,110,102>>, <<46,110,97,78>>, <<49,50,97>>,                \* inf .naN 12a
    \* 2^63 and -2^63 - 1, one past the ends of i64: 9223372036854775808,
    \* -9223372036854775809, +9223372036854775808, 0x8000000000000000,
    \* 0o1000000000000000000000
    <<57,50,50,51,51,55,50,48,51,54,56,53,52,55,55,53,56,48,56>>,
    <<45,57,50,50,51,51,55,50,48,51,54,56,53,52,55,55,53,56,48,57>>,
    <<43,57,50,50,51,51,55,50,48,51,54,56,53,52,55,55,53,56,48,56>>,
    <<48,120,56,48,48,48,48,48,48,48,48,48,48,48,48,48,48,48>>,
    <<48,111,49,48,48,48,48,48,48,48,48,48,48,48,48,48,48,48,48,48,48,48,48,48>> }

Styles == {"Plain", "SingleQuoted", "DoubleQuoted", "Literal", "Folded"}

Tags == {NoTag} \cup { Tag("tag:yaml.org,2002:", x) :
                          x \in {"bool", "int", "float", "null", "str", "binary"} }
               \cup { Tag("!", "bool"), Tag("!", "int") }

ParserEvents ==
    { Event_Plain(name) : name \in {"Nothing", "StreamStart", "StreamEnd", "DocumentStart",
                                     "DocumentEnd", "SequenceEnd", "MappingEnd"} }
    \cup { Event_SequenceStart(0, NoTag), Event_MappingStart(0, NoTag), Event_Alias(1) }
    \cup { Event_Scalar(value, style, 0, tag) :
             value \in ConvertTexts, style \in Styles, tag \in Tags }

\* One turn of the loop: event.into(), then writer.event(write_event).
Convert(e) ==
    /\ conversion' = [from |-> e, to |-> Into(e)]
    /\ IF Into(e) = Panic
       THEN UNCHANGED <<stack, level, out, config, result, accepted, errored, after_error>>
       ELSE event(Into(e), -1)

NextConvert ==
    /\ conversion.to # Panic /\ ~errored
    /\ Len(accepted) < MaxConvertEvents
    /\ \E e \in ParserEvents : Convert(e)

SpecConvert == Init /\ [][NextConvert]_vars

\* SpecEscape: escape_str called on the sink of a new writer with any short
\* text over the bytes it escapes in each of its ways, and with every ASCII
\* byte alone and between two letters.
EscapeAlphabet == {34, 92, 0, 8, 9, 10, 12, 13, 31, 127, 97, 110, 117, 48}

EscapeTexts ==
    UNION { [1..k -> EscapeAlphabet] : k \in 0..MaxEscapeLen }
    \cup { <<c>> : c \in 0..127 } \cup { <<97, c, 98>> : c \in 0..127 }

\* escape_str(parent.writer(), v)
EscapeStr(v) ==
    LET m == escape_str([out |-> out, level |-> level, stack |-> stack,
                         budget |-> -1, res |-> Ok], v)
    IN  /\ out' = m.out
        /\ conversion' = [from |-> [event |-> "str", value |-> v],
                          to |-> [kind |-> "escape_str", res |-> m.res]]
        /\ UNCHANGED <<stack, level, config, result, accepted, errored, after_error>>

NextEscape ==
    /\ conversion.to.kind = "None"
    /\ \E v \in EscapeTexts : EscapeStr(v)

SpecEscape == Init /\ [][NextEscape]_vars

----------------------------------------------------------------------------
(* The event grammar the claims are stated against:                        *)
(*   stream ::= StreamStart document* StreamEnd                            *)
(*   document ::= DocumentStart node? DocumentEnd                          *)
(*   node ::= Scalar | SequenceStart node* SequenceEnd                     *)
(*          | MappingStart (node node)* MappingEnd                         *)
(* read left to right: `phase` is the place in the stream and `open` the   *)
(* open collections, innermost last, each "seq", or "key" or "val" for a   *)
(* mapping that waits for a key or for the value of its last key.          *)

GrammarStart == [phase |-> "start", open |-> <<>>]

\* The innermost open collection after it has been given one more node.
NodeGiven(open) ==
    IF open = <<>> THEN open
    ELSE Front(open) \o << CASE Last(open) = "seq" -> "seq"
                             [] Last(open) = "key" -> "val"
                             [] Last(open) = "val" -> "key" >>

GrammarStep(g, ev) ==
    LET reject == [phase |-> "reject", open |-> <<>>]
        k == ev.kind
    IN  CASE g.phase = "start" ->
                IF k = "StreamStart" THEN [phase |-> "stream", open |-> <<>>] ELSE reject
          [] g.phase = "stream" ->
                IF k = "DocumentStart" THEN [phase |-> "doc", open |-> <<>>]
                ELSE IF k = "StreamEnd" THEN [phase |-> "end", open |-> <<>>]
                ELSE reject
          [] g.phase = "doc" ->
                IF k = "DocumentEnd" THEN [phase |-> "stream", open |-> <<>>]
                ELSE IF k = "Scalar" THEN [phase |-> "docdone", open |-> <<>>]
                ELSE IF k = "SequenceStart" THEN [phase |-> "in", open |-> <<"seq">>]
                ELSE IF k = "MappingStart" THEN [phase |-> "in", open |-> <<"key">>]
                ELSE reject
          [] g.phase = "docdone" ->
                IF k = "DocumentEnd" THEN [phase |-> "stream", open |-> <<>>] ELSE reject
          [] g.phase = "in" ->
                IF k = "Scalar" THEN [g EXCEPT !.open = NodeGiven(@)]
                ELSE IF k = "SequenceStart" THEN [g EXCEPT !.open = Append(NodeGiven(@), "seq")]
                ELSE IF k = "MappingStart" THEN [g EXCEPT !.open = Append(NodeGiven(@), "key")]
                ELSE IF \/ k = "SequenceEnd" /\ Last(g.open) = "seq"
                        \/ k = "MappingEnd" /\ Last(g.open) = "key"
                THEN [phase |-> IF Len(g.open) = 1 THEN "docdone" ELSE "in",
                      open |-> Front(g.open)]
                ELSE reject
          [] OTHER -> reject

RECURSIVE GrammarAfter(_)
GrammarAfter(evs) ==
    IF evs = <<>> THEN GrammarStart ELSE GrammarStep(GrammarAfter(Front(evs)), Last(evs))

\* evs is the beginning of a well-formed stream.
WellFormedPrefix(evs) == GrammarAfter(evs).phase # "reject"

----------------------------------------------------------------------------
(* The claims.                                                             *)

\* C1: once a call of event has returned an error (a state error, or a
\* formatting error of the sink), every later call of event, for any event and
\* whatever the sink does, returns the state error ExistingError; MappingEnd
\* right after StreamStart is not accepted.
C1_PermanentFailure ==
    /\ after_error => result.kind = "StateError" /\ result.state_type = "ExistingError"
    /\ ~starts_with(accepted, <<StreamStart, MappingEnd>>)

\* A call was refused after StreamStart, and a later DocumentStart too.
C1_Witness ==
    /\ after_error
    /\ accepted = <<StreamStart>>
    /\ result = new_state_error("ExistingError", DocumentStart)

\* C2: the calls so far have all returned Ok only if the events are the
\* beginning of a well-formed stream, and the first state error is returned for
\* the first event that is no continuation of one: a sink that does not fail
\* accepts exactly the prefixes of the well-formed streams.
C2_GrammarAcceptance ==
    /\ ~errored => WellFormedPrefix(accepted)
    /\ (result.kind = "StateError" /\ result.state_type # "ExistingError")
          => /\ WellFormedPrefix(accepted)
             /\ ~WellFormedPrefix(Append(accepted, result.event))

\* MappingEnd was refused after a key that has no value.
C2_Witness ==
    /\ accepted = <<StreamStart, DocumentStart, MappingStart, Scalar(String(<<97>>))>>
    /\ result = new_state_error("MappingEntryValue", MappingEnd)

----------------------------------------------------------------------------
(* Steps of event seen from outside: the event a step accepts, and what    *)
(* the claims expect it to add to the sink.                                *)

\* The step is a call of event that returns Ok.
Accepting == accepted' # accepted

\* The event an Accepting step accepts.
AcceptedEvent == Last(accepted')

\* The open collections (see GrammarStep) after the events evs.
Open(evs) == GrammarAfter(evs).open

\* The text of the scalars of SpecNodes, the integers 1 to 3.
DigitText(ev) == <<48 + ev.value.i>>

\* How the first line of an item of a sequence begins, and of a key of a
\* mapping, when the item or key starts with ev.
ItemStart(ev) ==
    <<45>> \o (IF ev.kind = "Scalar" THEN <<32>> \o DigitText(ev) ELSE <<>>)   \* "-"

KeyStart(ev) == IF ev.kind = "Scalar" THEN DigitText(ev) ELSE <<63>>          \* "?"

\* How a collection opened by `start` begins when its first child is ev.
FirstStart(start, ev) ==
    IF start.kind = "SequenceStart" THEN ItemStart(ev) ELSE KeyStart(ev)

\* C3: SequenceEnd right after SequenceStart adds "[]" and MappingEnd right
\* after MappingStart adds "{}", after one space and on the line of the
\* parent's "-", "?" or ":" when the collection is nested and after nothing at
\* the root of the document, with no newline and with the level unchanged,
\* whatever compact is.
C3_EmptyCollections ==
    [][(/\ Accepting
        /\ accepted # <<>>
        /\ \/ AcceptedEvent = SequenceEnd /\ Last(accepted) = SequenceStart
           \/ AcceptedEvent = MappingEnd /\ Last(accepted) = MappingStart)
       => LET nested == GrammarAfter(Front(accepted)).phase = "in"
              marker == IF AcceptedEvent = SequenceEnd THEN <<91,93>> ELSE <<123,125>>
          IN  /\ out' = out \o (IF nested THEN <<32>> ELSE <<>>) \o marker
              /\ nested => out # <<>> /\ Last(out) \in {45, 63, 58}
              /\ level' = level]_vars

\* An empty sequence as a complex key and an empty mapping as its value, with
\* compact off.
C3_Witness ==
    /\ accepted = <<StreamStart, DocumentStart, MappingStart,
                    SequenceStart, SequenceEnd, MappingStart, MappingEnd>>
    /\ ~compact
    /\ out = <<63,32,91,93,10,58,32,123,125>>                  \* "? []\n: {}"

\* C4: with omit_first_doc_separator on, the first DocumentStart of a stream
\* adds nothing to the sink and every later one adds a newline, "---" and a
\* newline; the three documents a, b, c are "a", "---", "b", "---", "c" on
\* five lines, with nothing before the "a" and no newline after the "c".
C4_DocumentSeparators ==
    [][/\ (Accepting /\ AcceptedEvent = DocumentStart /\ omit_first_doc_separator)
          => out' = out \o (IF \A i \in 1..Len(accepted) : accepted[i] # DocumentStart
                            THEN <<>> ELSE <<10,45,45,45,10>>)
       /\ (/\ omit_first_doc_separator'
           /\ accepted' = <<StreamStart,
                            DocumentStart, Scalar(String(<<97>>)), DocumentEnd,
                            DocumentStart, Scalar(String(<<98>>)), DocumentEnd,
                            DocumentStart, Scalar(String(<<99>>))>>)
          => out' = <<97,10,45,45,45,10,98,10,45,45,45,10,99>>]_vars

\* The third document of a stream has started, after "a" and "b".
C4_Witness ==
    /\ omit_first_doc_separator
    /\ accepted = <<StreamStart, DocumentStart, Scalar(String(<<97>>)), DocumentEnd,
                    DocumentStart, Scalar(String(<<98>>)), DocumentEnd, DocumentStart>>
    /\ out = <<97,10,45,45,45,10,98,10,45,45,45,10>>           \* "a\n---\nb\n---\n"

\* C5: in a sequence or mapping that has an item or entry already, the "-" of
\* a further item and the key of a further entry start on a new line after
\* level * 2 spaces, level being the number of open collections minus one; a
\* scalar item is "-", one space and the scalar.  The root sequence 1, 2, 3
\* is the three lines "- 1", "- 2", "- 3".
C5_IndentationFollowsNesting ==
    [][/\ (/\ Accepting
           /\ is_node_start(AcceptedEvent)
           /\ GrammarAfter(accepted).phase = "in"
           /\ Last(Open(accepted)) \in {"seq", "key"}
           /\ Last(accepted).kind \notin {"SequenceStart", "MappingStart"})
          => out' = out \o <<10>> \o Spaces((Len(Open(accepted)) - 1) * 2)
                        \o (IF Last(Open(accepted)) = "seq"
                            THEN ItemStart(AcceptedEvent) ELSE KeyStart(AcceptedEvent))
       /\ accepted' = <<StreamStart, DocumentStart, SequenceStart,
                        Scalar(Integer(1)), Scalar(Integer(2)), Scalar(Integer(3))>>
          => out' = <<45,32,49,10,45,32,50,10,45,32,51>>]_vars  \* "- 1\n- 2\n- 3"

\* The second item of a sequence nested three deep, after four spaces.
C5_Witness ==
    /\ accepted = <<StreamStart, DocumentStart, SequenceStart, SequenceStart,
                    SequenceStart, Scalar(Integer(1)), Scalar(Integer(2))>>
    /\ ends_with(out, <<49,10,32,32,32,32,45,32,50>>)          \* "1\n    - 2"

\* The first child of a collection that is the value of a scalar key.
ValueOfScalarKey ==
    LET n == Len(accepted)
    IN  /\ n >= 4
        /\ accepted[n].kind \in {"SequenceStart", "MappingStart"}
        /\ accepted[n - 1].kind = "Scalar"
        /\ GrammarAfter(SubSeq(accepted, 1, n - 2)).phase = "in"
        /\ Last(Open(SubSeq(accepted, 1, n - 2))) = "key"

\* C6: a sequence or mapping that is the value of a scalar key and is not
\* empty starts on a new line after "key:", one level deeper than the key,
\* whatever compact is; the key 1 with the value {2: 3} is "1:" and "  2: 3".
C6_ValueOfScalarKeyOnNewLine ==
    [][/\ (Accepting /\ is_node_start(AcceptedEvent) /\ ValueOfScalarKey)
          => /\ Last(out) = 58                                 \* ":"
             /\ out' = out \o <<10>>
                           \o Spaces(Len(Open(SubSeq(accepted, 1, Len(accepted) - 2))) * 2)
                           \o FirstStart(Last(accepted), AcceptedEvent)
       /\ accepted' = <<StreamStart, DocumentStart, MappingStart, Scalar(Integer(1)),
                        MappingStart, Scalar(Integer(2)), Scalar(Integer(3))>>
          => out' = <<49,58,10,32,32,50,58,32,51>>]_vars       \* "1:\n  2: 3"

\* A sequence as the value of a scalar key of a nested mapping, compact on.
C6_Witness ==
    /\ accepted = <<StreamStart, DocumentStart, SequenceStart, MappingStart,
                    Scalar(Integer(1)), SequenceStart, Scalar(Integer(2))>>
    /\ compact
    /\ out = <<45,32,49,58,10,32,32,32,32,45,32,50>>           \* "- 1:\n    - 2"

\* The first child of a collection that is an item of a sequence, a key of a
\* mapping, or the value of a key that is a collection.
InlinePosition ==
    LET n  == Len(accepted)
        g0 == GrammarAfter(Front(accepted))
    IN  /\ n >= 4
        /\ accepted[n].kind \in {"SequenceStart", "MappingStart"}
        /\ g0.phase = "in"
        /\ \/ Last(g0.open) \in {"seq", "key"}
           \/ Last(g0.open) = "val" /\ accepted[n - 1].kind \in {"SequenceEnd", "MappingEnd"}

\* C7: a collection that is not empty and is an item of a sequence, a complex
\* key or the value of a complex key starts after one space on the line of
\* the parent's "-", "?" or ":" when compact is on, and on a new line one level
\* deeper than that indicator when it is off; its level, which indents the
\* items that follow, is the same in both cases; compact is read when the first
\* child of the collection arrives.
C7_Compact ==
    [][(Accepting /\ is_node_start(AcceptedEvent) /\ InlinePosition)
       => LET deeper == Len(Open(Front(accepted)))
          IN  /\ Last(out) \in {45, 63, 58}
              /\ out' = out \o (IF compact THEN <<32>>
                                ELSE <<10>> \o Spaces(deeper * 2))
                            \o FirstStart(Last(accepted), AcceptedEvent)
              /\ level' = deeper]_vars

\* A mapping in a sequence with compact on: "- 1"; and a sequence that is the
\* value of a complex key with compact off.
C7_Witness ==
    \/ /\ accepted = <<StreamStart, DocumentStart, SequenceStart, MappingStart,
                       Scalar(Integer(1))>>
       /\ out = <<45,32,49>>
    \/ /\ accepted = <<StreamStart, DocumentStart, MappingStart, SequenceStart,
                       SequenceEnd, SequenceStart, Scalar(Integer(1))>>
       /\ ends_with(out, <<10,58,10,32,32,45,32,49>>)          \* "\n:\n  - 1"

----------------------------------------------------------------------------
(* The token of a String scalar.                                           *)

\* The step accepts a String scalar; Text is its text.
StringAccepted ==
    Accepting /\ AcceptedEvent.kind = "Scalar" /\ AcceptedEvent.value.type = "String"

Text == AcceptedEvent.value.text

\* What a step that accepts a scalar writes before the token of the scalar:
\* the "- " of an item, the ": " of a value, and before them the placement of
\* a further item or of the first child of a collection (C5, C6, C7).
Lead ==
    LET g       == GrammarAfter(accepted)
        n       == Len(accepted)
        newline == <<10>> \o Spaces((Len(g.open) - 1) * 2)
        line    == IF accepted[n].kind \notin {"SequenceStart", "MappingStart"}
                   THEN newline
                   ELSE IF Len(g.open) = 1 THEN <<>>
                   ELSE IF ValueOfScalarKey THEN newline
                   ELSE IF compact THEN <<32>> ELSE newline
    IN  IF g.phase # "in" THEN <<>>
        ELSE IF Last(g.open) = "seq" THEN line \o <<45,32>>         \* "- "
        ELSE IF Last(g.open) = "key" THEN line
        ELSE IF accepted[n].kind = "Scalar" THEN <<58,32>>          \* ": "
        ELSE newline \o <<58,32>>

\* The token: what the step writes after Lead.
Token == SubSeq(out', Len(out) + Len(Lead) + 1, Len(out'))

RenderedAs(token) == out' = out \o Lead \o token

RenderedBare == RenderedAs(Text)

RenderedDoubleQuoted ==
    /\ RenderedAs(Token)
    /\ Len(Token) >= 2 /\ Token[1] = 34 /\ Last(Token) = 34

RenderedLiteralBlock ==
    /\ RenderedAs(Token)
    /\ Token # <<>> /\ Token[1] = 124 /\ contains(Token, 10)

\* C8: a String scalar that is written bare is a String again when
\* from_cow_str infers the type of the token; and a String scalar whose text
\* from_cow_str takes for an Integer, a Real, a Boolean or Null is written
\* double-quoted.
C8_RoundTripOfPlainStrings ==
    [][StringAccepted
       => /\ RenderedBare => from_cow_str(Text) = String(Text)
          /\ from_cow_str(Text).type \in {"Integer", "Real", "Boolean", "Null"}
                => RenderedDoubleQuoted]_vars

\* The texts C9 names.
QuotedWords == { <<116,114,117,101>>, <<110,117,108,108>>,          \* true null
                 <<49,50,51>>, <<51,46,49,52>> }                    \* 123 3.14

BareWords == { <<104,101,108,108,111>>, <<121>>, <<89>>, <<110>>, <<78>> }  \* hello y Y n N

SpaceAtAnEnd(t) == t # <<>> /\ (t[1] = 32 \/ Last(t) = 32)

\* The String branch of run_scalar takes the text for a literal block.
LiteralBlockChosen(t) ==
    multiline_strings /\ contains(t, 10) /\ is_valid_literal_block_scalar(t)

\* C9 as stated: a String scalar "true", "null", "123" or "3.14", an empty one
\* and one that starts or ends with a space is written double-quoted; "hello",
\* "y", "Y", "n" and "N" are written bare.
C9_QuotingNecessity ==
    [][StringAccepted
       => /\ (Text \in QuotedWords \/ Text = <<>> \/ SpaceAtAnEnd(Text))
                => RenderedDoubleQuoted
          /\ Text \in BareWords => RenderedBare]_vars

\* C9 amended: a String scalar "true", "null", "123" or "3.14" is written as
\* that word between double quotes and an empty one as two double quotes; one
\* that starts or ends with a space is written double-quoted unless
\* multiline_strings is on, the text contains a newline and passes the
\* literal-block validity check, and then it is written as a literal block;
\* "hello", "y", "Y", "n" and "N" are written bare.
C9_QuotingNecessityUnlessBlock ==
    [][StringAccepted
       => /\ (Text \in QuotedWords \/ Text = <<>>)
                => RenderedAs(<<34>> \o Text \o <<34>>)
          /\ SpaceAtAnEnd(Text)
                => IF LiteralBlockChosen(Text)
                   THEN RenderedLiteralBlock /\ ~RenderedDoubleQuoted
                   ELSE RenderedDoubleQuoted
          /\ Text \in BareWords => RenderedBare]_vars

\* " a" as an item of a sequence is written "- \" a\"", and "a\nb " at the
\* root is written as a literal block.
C9_Witness ==
    \/ /\ accepted = <<StreamStart, DocumentStart, SequenceStart,
                       Scalar(String(<<32,97>>))>>
       /\ out = <<45,32,34,32,97,34>>
    \/ /\ accepted = <<StreamStart, DocumentStart, Scalar(String(<<97,10,98,32>>))>>
       /\ out = <<124,45,10,97,10,98,32>>

\* The text t without one newline at its end.
Chomped(t) == IF t # <<>> /\ Last(t) = 10 THEN Front(t) ELSE t

\* The text t with by put for every character c.
RECURSIVE Replaced(_, _, _)
Replaced(t, c, by) ==
    IF t = <<>> THEN <<>>
    ELSE (IF Head(t) = c THEN by ELSE <<Head(t)>>) \o Replaced(Tail(t), c, by)

\* The literal block of t with its lines after pad.
Block(t, pad) ==
    (IF Last(t) = 10 THEN <<124>> ELSE <<124,45>>)                  \* "|" "|-"
        \o <<10>> \o pad \o Replaced(Chomped(t), 10, <<10>> \o pad)

\* C10: a String scalar that contains a newline and passes the literal-block
\* validity check is written, with multiline_strings on, as "|" when it ends
\* with a newline and "|-" when not, and then each of its lines on a line of
\* its own, indented one level deeper than the level of the scalar, no line
\* for what follows the last newline when that is empty, and the level ends
\* as the level of the scalar; with multiline_strings off it is written between
\* double quotes with \n for each newline (the other characters as they are,
\* when none of them is a tab, a double quote or a backslash).
C10_MultilineStrings ==
    [][(StringAccepted /\ contains(Text, 10) /\ is_valid_literal_block_scalar(Text))
       => /\ multiline_strings
                => /\ RenderedAs(Block(Text, Spaces(Len(Open(accepted)) * 2)))
                   /\ level' = Len(Open(accepted)) - 1
          /\ (~multiline_strings /\ \A i \in 1..Len(Text) : Text[i] \notin {9, 34, 92})
                => RenderedAs(<<34>> \o Replaced(Text, 10, <<92,110>>) \o <<34>>)]_vars

\* "line1\nline2\n" at the root with multiline_strings on and off, and "a\nb"
\* as the value of a key in a sequence.
C10_Witness ==
    \/ /\ accepted = <<StreamStart, DocumentStart,
                       Scalar(String(<<108,105,110,101,49,10,108,105,110,101,50,10>>))>>
       /\ \/ out = <<124,10,108,105,110,101,49,10,108,105,110,101,50>>
          \/ out = <<34,108,105,110,101,49,92,110,108,105,110,101,50,92,110,34>>
    \/ /\ accepted = <<StreamStart, DocumentStart, SequenceStart, MappingStart,
                       Scalar(Integer(1)), Scalar(String(<<97,10,98>>))>>
       /\ out = <<45,32,49,58,32,124,45,10,32,32,32,32,97,10,32,32,32,32,98>>

----------------------------------------------------------------------------
(* Scalars that are not Strings.                                           *)

\* The canonical text of the scalars of SpecTyped.
Canonical(v) ==
    IF v.type = "Boolean" THEN (IF v.b THEN <<116,114,117,101>>      \* true
                                ELSE <<102,97,108,115,101>>)         \* false
    ELSE IF v = Integer(-12) THEN <<45,49,50>>                       \* -12
    ELSE IF v = Integer(0) THEN <<48>>                               \* 0
    ELSE IF v.type = "Real" THEN v.text
    ELSE <<126>>                                                     \* ~

\* C14: a Boolean is written true or false, an Integer in base 10 with "-"
\* before a negative one, a Real as its text, Null and BadValue as "~", none
\* of them between quotes, in every position and under every configuration.
C14_CanonicalScalars ==
    [][(Accepting /\ AcceptedEvent \in TypedScalars)
       => RenderedAs(Canonical(AcceptedEvent.value))]_vars

\* The Real .inf as the value of the key -12 with every setting off, and
\* BadValue as an item of a sequence.
C14_Witness ==
    \/ /\ accepted = <<StreamStart, DocumentStart, MappingStart,
                       Scalar(Integer(-12)), Scalar(Real(<<46,105,110,102>>))>>
       /\ ~compact /\ ~multiline_strings /\ ~omit_first_doc_separator
       /\ ends_with(out, <<45,49,50,58,32,46,105,110,102>>)         \* "-12: .inf"
    \/ /\ accepted = <<StreamStart, DocumentStart, SequenceStart, Scalar(BadValue)>>
       /\ out = <<45,32,126>>

----------------------------------------------------------------------------
(* Documents, keys and the end of the stream.                              *)

\* C15: with omit_first_doc_separator off, the first DocumentStart of a
\* stream writes "---" and a newline into the empty sink; a later
\* DocumentStart writes a newline, "---" and a newline whatever the setting is
\* by then; and setting it writes nothing and leaves the stack as it is.
C15_FirstSeparatorKept ==
    [][/\ (Accepting /\ AcceptedEvent = DocumentStart)
          => IF \A i \in 1..Len(accepted) : accepted[i] # DocumentStart
             THEN ~omit_first_doc_separator
                    => out = <<>> /\ out' = <<45,45,45,10>>
             ELSE out' = out \o <<10,45,45,45,10>>
       /\ omit_first_doc_separator' # omit_first_doc_separator
          => out' = out /\ stack' = stack /\ level' = level]_vars

\* The second document starts with the setting on, after a first document
\* that started with the setting off.
C15_Witness ==
    /\ accepted = <<StreamStart, DocumentStart, Scalar(String(<<97>>)), DocumentEnd,
                    DocumentStart>>
    /\ omit_first_doc_separator
    /\ out = <<45,45,45,10,97,10,45,45,45,10>>                 \* "---\na\n---\n"

\* The frame a SequenceStart or MappingStart in a value position leaves on
\* top of the stack, with its inline hint.
PendingFrame(ev, inline) ==
    IF ev.kind = "SequenceStart" THEN ValSequenceFrame(inline)
    ELSE ValMappingFrame(inline)

IsCollectionStart(ev) == ev.kind \in {"SequenceStart", "MappingStart"}

\* C16: a key that is a SequenceStart or MappingStart is written as "?" where
\* the key starts and is placed as an inline value; the ":" of its entry is
\* then written on a new line at the indentation of the mapping and the value
\* is placed with the inline hint on.  A scalar key is written where the key
\* starts with no "?" and no space before it; ":" follows it on the same line
\* and the value is placed with the inline hint off.  A scalar value is
\* written after ":" and one space in both cases.
C16_ComplexKeys ==
    [][(Accepting /\ is_node_start(AcceptedEvent) /\ GrammarAfter(accepted).phase = "in")
       => LET ev     == AcceptedEvent
              indent == Spaces((Len(Open(accepted)) - 1) * 2)
              value  == IF ev.kind = "Scalar" THEN <<32>> \o DigitText(ev) ELSE <<>>
          IN  /\ (Last(Open(accepted)) = "key" /\ IsCollectionStart(ev))
                    => /\ RenderedAs(<<63>>)                                \* "?"
                       /\ Last(stack') = PendingFrame(ev, TRUE)
                       /\ Last(Front(stack')) = MappingItemValueFrame(TRUE)
              /\ (Last(Open(accepted)) = "key" /\ ev.kind = "Scalar")
                    => /\ RenderedAs(DigitText(ev))
                       /\ Last(stack') = MappingItemValueFrame(FALSE)
              /\ (Last(Open(accepted)) = "val" /\ Last(accepted).kind = "Scalar")
                    => /\ out' = out \o <<58>> \o value                     \* ":"
                       /\ IsCollectionStart(ev) => Last(stack') = PendingFrame(ev, FALSE)
              /\ (Last(Open(accepted)) = "val" /\ Last(accepted).kind # "Scalar")
                    => /\ out' = out \o <<10>> \o indent \o <<58>> \o value
                       /\ IsCollectionStart(ev) => Last(stack') = PendingFrame(ev, TRUE)]_vars

\* In a mapping nested in a sequence, the key [1] has ended and the value, a
\* mapping, has started: "- ? - 1", then ":" under the "?".
C16_Witness ==
    /\ accepted = <<StreamStart, DocumentStart, SequenceStart, MappingStart,
                    SequenceStart, Scalar(Integer(1)), SequenceEnd, MappingStart>>
    /\ compact
    /\ out = <<45,32,63,32,45,32,49,10,32,32,58>>               \* "- ? - 1\n  :"
    /\ Last(stack) = ValMappingFrame(TRUE)

\* C18: no call of event takes back or rewrites what is in the sink, and a
\* failure leaves the sink exactly as the writes before it made it.  For every
\* call the text before it is the start of the text after it.  A call that
\* fails in the sink leaves the text before it followed by a part of what the
\* same call writes when the sink takes every write: the writes that succeeded
\* and nothing in their place or after them.  A call that returns a state
\* error, and every call made after a call has failed, leaves the sink as it
\* was.
C18_SinkAppendOnly ==
    [][/\ starts_with(out', out)
       /\ (result'.kind = "FmtError" /\ ~errored)
             => \A ev \in Events, budget \in SinkBudgets :
                    event(ev, budget)
                        => /\ starts_with(run_event(ev, -1).out, out')
                           /\ run_event(ev, -1).res = Ok
       /\ result'.kind = "StateError" => out' = out
       /\ errored => out' = out]_vars

\* A call failed in the sink after its first write, and a call was made after
\* it: the "-" of the item is all there is in the sink.
C18_Witness ==
    /\ after_error
    /\ result.kind = "StateError" /\ result.state_type = "ExistingError"
    /\ accepted = <<StreamStart, DocumentStart, SequenceStart>>
    /\ out = <<45>>

\* C19: once StreamEnd is accepted, every call of event, with whatever event,
\* returns an error and writes nothing: the state error End the first time,
\* ExistingError every time after that.
C19_EndIsTerminal ==
    [][(accepted # <<>> /\ Last(accepted) = StreamEnd)
       => \A ev \in Events, budget \in SinkBudgets :
             event(ev, budget)
             => /\ accepted' = accepted
                /\ out' = out
                /\ result' = new_state_error(IF errored THEN "ExistingError" ELSE "End",
                                             ev)]_vars

\* After a stream of one document, a second StreamStart was refused by End
\* and a StreamEnd after it by the emptied stack.
C19_Witness ==
    /\ accepted = <<StreamStart, DocumentStart, Scalar(String(<<97>>)), DocumentEnd,
                    StreamEnd>>
    /\ after_error
    /\ result = new_state_error("ExistingError", StreamEnd)
    /\ out = <<97>>

\* The state a frame reports when it refuses an event.
ExpectedClass(frame) ==
    CASE frame.kind = "Start" -> "Start"
      [] frame.kind = "End" -> "End"
      [] frame.kind = "Docs" -> "DocumentList"
      [] frame.kind = "Doc" -> "Document"
      [] frame.kind = "DocEnd" -> "DocumentEnd"
      [] frame.kind \in {"Sequence", "ValSequence"} -> "Sequence"
      [] frame.kind \in {"Mapping", "ValMapping"} -> "Mapping"
      [] frame.kind = "MappingItemValue" -> "MappingEntryValue"

\* The step is a call of event that returned a state error.
StateErrorReturned ==
    /\ result'.kind = "StateError"
    /\ result' # result \/ errored' # errored \/ after_error' # after_error

\* C20: a state error carries the event of the call, and as its state the
\* class of the frame that was on top of the stack when the call was made
\* (Sequence and Mapping also for a sequence or mapping whose first child is
\* pending), or ExistingError when the stack was empty, and only then.
C20_StateErrorIdentifiesState ==
    [][StateErrorReturned
       => /\ result'.state_type = IF stack = <<>> THEN "ExistingError"
                                  ELSE ExpectedClass(Last(stack))
          /\ \E budget \in SinkBudgets : event(result'.event, budget)]_vars

\* A MappingEnd came while the first child of a sequence, the key of a
\* mapping, was pending.
C20_Witness ==
    /\ accepted = <<StreamStart, DocumentStart, MappingStart, SequenceStart>>
    /\ result = new_state_error("Sequence", MappingEnd)
    /\ ~after_error

----------------------------------------------------------------------------
(* The conversion of parser events.                                        *)

\* The last parser event converted was a scalar, became a WriteEvent, and
\* Converted is the value of that WriteEvent.
ScalarConverted == conversion.from.event = "Scalar" /\ conversion.to.kind = "Scalar"

Converted == conversion.to.value

CoreTag(suffix) == Tag("tag:yaml.org,2002:", suffix)

\* A number of the radix whose digits are `digits`: an optional sign, then
\* one digit or more.
IsNumber(t, digits) ==
    LET body == IF t # <<>> /\ t[1] \in {43, 45} THEN Tail(t) ELSE t
    IN  body # <<>> /\ \A i \in 1..Len(body) : body[i] \in digits

Decimal == 48..57

\* The numbers among ConvertTexts that no signed 64-bit integer holds: 2^63
\* and -2^63 - 1 in base 10, 2^63 in base 16 and in base 8.
Beyond64Bits(radix) ==
    CASE radix = 10 -> { <<57,50,50,51,51,55,50,48,51,54,56,53,52,55,55,53,56,48,56>>,
                         <<45,57,50,50,51,51,55,50,48,51,54,56,53,52,55,55,53,56,48,57>>,
                         <<43,57,50,50,51,51,55,50,48,51,54,56,53,52,55,55,53,56,48,56>> }
      [] radix = 16 -> { <<56,48,48,48,48,48,48,48,48,48,48,48,48,48,48,48>> }
      [] radix = 8 -> { <<49,48,48,48,48,48,48,48,48,48,48,48,48,48,48,48,48,48,48,48,48,48>> }

\* A number of the radix that a signed 64-bit integer holds.
IsInt64(t, digits, radix) == IsNumber(t, digits) /\ t \notin Beyond64Bits(radix)

\* C11: a plain scalar tagged tag:yaml.org,2002: bool, int, float or null
\* converts to the type of its tag when its text is of that type and to
\* BadValue otherwise: Boolean for "true" and "false" only, Integer for a
\* base-10 signed 64-bit integer only, Real, with the text kept, for what the float
\* grammar accepts only, Null for "~" and "null" only.  Plain "yes" tagged bool
\* is BadValue, and the writer writes it as "~".
C11_TagDrivenCoercion ==
    (ScalarConverted /\ conversion.from.style = "Plain")
    => LET text == conversion.from.value
           tag  == conversion.from.tag
       IN  /\ tag = CoreTag("bool")
                => Converted = IF text = <<116,114,117,101>> THEN Boolean(TRUE)
                               ELSE IF text = <<102,97,108,115,101>> THEN Boolean(FALSE)
                               ELSE BadValue
           /\ tag = CoreTag("int")
                => /\ Converted.type = IF IsInt64(text, Decimal, 10) THEN "Integer"
                                       ELSE "BadValue"
                   /\ text = <<52,50>> => Converted = Integer(42)
                   /\ text = <<45,55>> => Converted = Integer(-7)
           /\ tag = CoreTag("float")
                => Converted = IF parse_f64_is_some(text) THEN Real(text) ELSE BadValue
           /\ tag = CoreTag("null")
                => Converted = IF text \in { <<126>>, <<110,117,108,108>> } THEN Null
                               ELSE BadValue
           /\ (tag = CoreTag("bool") /\ text = <<121,101,115>>
               /\ accepted = <<StreamStart, DocumentStart, Scalar(BadValue)>>)
                => out = <<126>>

\* Plain "yes" tagged bool was converted and written as the document.
C11_Witness ==
    /\ conversion = [from |-> Event_Scalar(<<121,101,115>>, "Plain", 0, CoreTag("bool")),
                     to |-> Scalar(BadValue)]
    /\ accepted = <<StreamStart, DocumentStart, Scalar(BadValue)>>
    /\ out = <<126>>

\* C12: a scalar whose style is not Plain converts to the String of its text,
\* whatever its tag and its text.
C12_QuotingSuppressesInference ==
    (conversion.from.event = "Scalar" /\ conversion.from.style # "Plain")
    => conversion.to = Scalar(String(conversion.from.value))

\* Double-quoted "42" tagged int was converted to the String "42".
C12_Witness ==
    conversion = [from |-> Event_Scalar(<<52,50>>, "DoubleQuoted", 0, CoreTag("int")),
                  to |-> Scalar(String(<<52,50>>))]

HexDigits == Decimal \cup (97..102) \cup (65..70)

\* The texts C13 takes for integers, as it words them: 0x and a base-16
\* number, 0o and a base-8 number, + and a base-10 number, of any size, or a
\* base-10 signed 64-bit integer.
IntegerLooking(t) ==
    \/ starts_with(t, <<48,120>>) /\ IsNumber(SubSeq(t, 3, Len(t)), HexDigits)
    \/ starts_with(t, <<48,111>>) /\ IsNumber(SubSeq(t, 3, Len(t)), 48..55)
    \/ starts_with(t, <<43>>) /\ IsNumber(Tail(t), Decimal)
    \/ IsInt64(t, Decimal, 10)

\* The same with every number a signed 64-bit integer.
IntegerIn64Bits(t) ==
    \/ starts_with(t, <<48,120>>) /\ IsInt64(SubSeq(t, 3, Len(t)), HexDigits, 16)
    \/ starts_with(t, <<48,111>>) /\ IsInt64(SubSeq(t, 3, Len(t)), 48..55, 8)
    \/ starts_with(t, <<43>>) /\ IsInt64(Tail(t), Decimal, 10)
    \/ IsInt64(t, Decimal, 10)

\* C13 as stated: a plain scalar without a tag converts as from_cow_str
\* infers: to an Integer, never a Real, when its text is 0x and a base-16
\* number, 0o and a base-8 number, + and a base-10 number, or a base-10 signed
\* 64-bit integer; otherwise to Null for "~" and "null" and to a Boolean for
\* "true" and "false"; otherwise to the Real of its text when the float grammar
\* accepts it; otherwise to the String of its text.  "42", "0x2A" and "0o52"
\* are Integer(42).
C13_InferencePrecedence ==
    (ScalarConverted /\ conversion.from.style = "Plain" /\ conversion.from.tag = NoTag)
    => LET text == conversion.from.value
       IN  /\ IF IntegerLooking(text) THEN Converted.type = "Integer"
              ELSE IF text \in { <<126>>, <<110,117,108,108>> } THEN Converted = Null
              ELSE IF text = <<116,114,117,101>> THEN Converted = Boolean(TRUE)
              ELSE IF text = <<102,97,108,115,101>> THEN Converted = Boolean(FALSE)
              ELSE IF parse_f64_is_some(text) THEN Converted = Real(text)
              ELSE Converted = String(text)
           /\ text \in { <<52,50>>, <<48,120,50,65>>, <<48,111,53,50>> }
                => Converted = Integer(42)

\* C13, amended: the same with the number after 0x, 0o or + a signed 64-bit
\* integer too.  A text whose number is outside -2^63 .. 2^63 - 1 is no
\* Integer: it goes on to the later rules, and is the Real of its text when
\* the float grammar accepts it (+9223372036854775808) and the String of its
\* text when not (0x8000000000000000).
C13_InferencePrecedenceIn64Bits ==
    (ScalarConverted /\ conversion.from.style = "Plain" /\ conversion.from.tag = NoTag)
    => LET text == conversion.from.value
       IN  /\ IF IntegerIn64Bits(text) THEN Converted.type = "Integer"
              ELSE IF text \in { <<126>>, <<110,117,108,108>> } THEN Converted = Null
              ELSE IF text = <<116,114,117,101>> THEN Converted = Boolean(TRUE)
              ELSE IF text = <<102,97,108,115,101>> THEN Converted = Boolean(FALSE)
              ELSE IF parse_f64_is_some(text) THEN Converted = Real(text)
              ELSE Converted = String(text)
           /\ text \in { <<52,50>>, <<48,120,50,65>>, <<48,111,53,50>> }
                => Converted = Integer(42)
           /\ text = <<48,120,56,48,48,48,48,48,48,48,48,48,48,48,48,48,48,48>>
                => Converted = String(text)

\* Plain +9223372036854775808 (2^63) without a tag was converted to the
\* Real of its text.
C13_Witness ==
    conversion = [from |-> Event_Scalar(<<43,57,50,50,51,51,55,50,48,51,54,56,53,52,55,55,53,56,48,56>>,
                                        "Plain", 0, NoTag),
                  to |-> Scalar(Real(<<43,57,50,50,51,51,55,50,48,51,54,56,53,52,55,55,53,56,48,56>>))]

\* C17: the conversion of an Alias does not return a WriteEvent, and nothing
\* reaches the writer; every other parser event converts to the WriteEvent of
\* its kind.
C17_AliasIsNotConverted ==
    /\ conversion.from.event = "Alias" => conversion.to = Panic /\ ~errored
    /\ conversion.from.event \notin {"Alias", "None", "Scalar"}
          => conversion.to = [kind |-> conversion.from.event]
    /\ conversion.from.event = "Scalar"
          => /\ conversion.to.kind = "Scalar"
             /\ DOMAIN conversion.to = {"kind", "value"}
             /\ Converted.type \in {"String", "Real", "Boolean", "Integer",
                                    "Null", "BadValue"}

\* An Alias came after the start of a document, and the writer is as before.
C17_Witness ==
    /\ conversion = [from |-> Event_Alias(1), to |-> Panic]
    /\ accepted = <<StreamStart, DocumentStart>>
    /\ stack # <<>>

----------------------------------------------------------------------------
(* The indentation level and the stack.                                    *)

\* For each open collection of the accepted events evs, outermost first,
\* whether a child of it has started.
RECURSIVE Begun(_)
Begun(evs) ==
    IF evs = <<>> THEN <<>>
    ELSE LET b == Begun(Front(evs))
             k == Last(evs).kind
             given == IF b = <<>> THEN b ELSE Front(b) \o <<TRUE>>
         IN  CASE k \in {"SequenceStart", "MappingStart"} -> Append(given, FALSE)
               [] k = "Scalar" -> given
               [] k \in {"SequenceEnd", "MappingEnd"} -> IF b = <<>> THEN b ELSE Front(b)
               [] OTHER -> <<>>

\* The accepted events end inside a document: its DocumentStart is accepted
\* and its DocumentEnd is not.
InsideDocument == GrammarAfter(accepted).phase \in {"doc", "docdone", "in"}

\* C21 as stated: the level is -1 on a new writer and at least 0 in every
\* state after an accepted DocumentStart and before its DocumentEnd.
C21_LevelInsideDocument ==
    ~errored => /\ accepted = <<>> => level = -1
                /\ InsideDocument => level >= 0

\* C21, amended: while every call has returned Ok the level is -1 on a new
\* writer and never below -1, and it is at least 0 exactly when a collection
\* is open of which a child has started; inside a document that has no such
\* collection it is still -1.
C21_LevelInsideBegunCollection ==
    ~errored => /\ accepted = <<>> => level = -1
                /\ level >= -1
                /\ level >= 0 <=> \E i \in DOMAIN Begun(accepted) : Begun(accepted)[i]

\* The second of two nested sequences has its first item: the level is 1.
C21_Witness ==
    /\ ~errored
    /\ accepted = <<StreamStart, DocumentStart, SequenceStart, SequenceStart,
                    Scalar(String(<<97>>))>>
    /\ level = 1

\* C22: a call of event that returns Ok takes exactly the top frame off the
\* stack and pushes zero, one or two frames: the frames below the top one
\* stay as they were, in their order, and the height changes by -1, 0 or +1.
C22_OnePopAtMostTwoPushes ==
    [][Accepting
       => /\ stack # <<>>
          /\ starts_with(stack', Front(stack))
          /\ Len(stack') - Len(Front(stack)) \in 0..2
          /\ Len(stack') - Len(stack) \in -1..1]_vars

\* SequenceEnd popped the frame of a sequence with one item and pushed
\* nothing; the two frames below are the ones DocumentStart and SequenceStart
\* left there.
C22_Witness ==
    /\ accepted = <<StreamStart, DocumentStart, SequenceStart, Scalar(Null),
                    SequenceEnd>>
    /\ stack = <<DocsFrame(FALSE), DocEndFrame>>

----------------------------------------------------------------------------
(* The configuration.                                                      *)

\* The settings that differ before and after the step.
ChangedSettings ==
    {s \in {"compact", "multiline_strings", "omit_first_doc_separator"} :
        \/ s = "compact" /\ compact' # compact
        \/ s = "multiline_strings" /\ multiline_strings' # multiline_strings
        \/ s = "omit_first_doc_separator"
              /\ omit_first_doc_separator' # omit_first_doc_separator}

\* C23: the settings change only in the setters: a step that changes the
\* stack, the level, the sink or what a call of event returned (a call of
\* event, successful or failing) changes no setting, and a step that changes
\* a setting changes that one setting and nothing else.  The indent width is
\* the constant ident_size.
C23_ConfigurationChangedOnlyBySetters ==
    [][/\ (\/ <<stack, level, out>>' # <<stack, level, out>>
           \/ <<result, accepted, errored, after_error>>'
                 # <<result, accepted, errored, after_error>>)
          => ChangedSettings = {}
       /\ ChangedSettings # {}
          => /\ Cardinality(ChangedSettings) = 1
             /\ UNCHANGED <<stack, level, out, result, accepted, errored, after_error>>
       /\ ident_size = 2]_vars

\* compact was switched off inside a document; a call that was accepted and
\* a call that failed later left it off and the other settings on.
C23_Witness ==
    /\ ~compact /\ multiline_strings /\ omit_first_doc_separator
    /\ accepted = <<StreamStart, DocumentStart, SequenceStart>>
    /\ result = new_state_error("Sequence", DocumentEnd)
    /\ stack = <<>>

----------------------------------------------------------------------------
(* Panics.                                                                 *)

\* C24: in every reachable state, every event makes the call of event
\* return Ok or an error: no call reaches the unreachable!() of run_node or
\* run_val, which the frames enter with SequenceStart, MappingStart and
\* Scalar only, and no call has panicked.
C24_HelpersNeverPanic ==
    /\ result # Panic
    /\ \A ev \in Events, budget \in SinkBudgets :
          run_event(ev, budget).res.kind \in {"Ok", "FmtError", "StateError"}

\* run_node took the scalar key of a mapping and run_val the sequence that
\* is its value; the DocumentEnd that came then was refused with an error.
C24_Witness ==
    /\ accepted = <<StreamStart, DocumentStart, MappingStart, Scalar(String(<<97>>)),
                    SequenceStart>>
    /\ result = new_state_error("Sequence", DocumentEnd)

----------------------------------------------------------------------------
(* Double-quoted text, read back.                                          *)

\* The bytes that may not stand for themselves between double quotes: the
\* double quote, the backslash, the C0 controls and DEL.
MustBeEscaped(c) == c \in {34, 92, 127} \/ c \in 0..31

\* The value of a hexadecimal digit, -1 for any other byte.
HexValue(c) ==
    IF c \in 48..57 THEN c - 48
    ELSE IF c \in 97..102 THEN c - 87
    ELSE IF c \in 65..70 THEN c - 55
    ELSE -1

\* The byte the escape \c stands for, -1 when there is no such escape.
SimpleEscape(c) ==
    CASE c = 34 -> 34 [] c = 92 -> 92 [] c = 98 -> 8 [] c = 116 -> 9
      [] c = 110 -> 10 [] c = 102 -> 12 [] c = 114 -> 13 [] OTHER -> -1

\* The body of a double-quoted scalar read from the left: ok when it is a
\* row of bytes that stand for themselves (none of them MustBeEscaped) and
\* of the escapes \" \\ \b \t \n \f \r \uXXXX; text is what it stands for,
\* copied the bytes that stood for themselves, escapes the bytes that were
\* written as an escape.
RECURSIVE Unescaped(_)
Unescaped(body) ==
    LET bad == [ok |-> FALSE, text |-> <<>>, copied |-> <<>>, escapes |-> <<>>]
        Then(c, raw, n) ==
            LET rest == Unescaped(SubSeq(body, n + 1, Len(body)))
            IN  IF ~rest.ok THEN bad
                ELSE [ok |-> TRUE, text |-> <<c>> \o rest.text,
                      copied |-> IF raw THEN <<c>> \o rest.copied ELSE rest.copied,
                      escapes |-> IF raw THEN rest.escapes ELSE <<c>> \o rest.escapes]
    IN  IF body = <<>>
        THEN [ok |-> TRUE, text |-> <<>>, copied |-> <<>>, escapes |-> <<>>]
        ELSE IF body[1] # 92
        THEN (IF MustBeEscaped(body[1]) THEN bad ELSE Then(body[1], TRUE, 1))
        ELSE IF Len(body) < 2 THEN bad
        ELSE IF body[2] = 117
        THEN (IF Len(body) >= 6 /\ \A k \in 3..6 : HexValue(body[k]) >= 0
              THEN Then(((HexValue(body[3]) * 16 + HexValue(body[4])) * 16
                            + HexValue(body[5])) * 16 + HexValue(body[6]),
                        FALSE, 6)
              ELSE bad)
        ELSE IF SimpleEscape(body[2]) >= 0 THEN Then(SimpleEscape(body[2]), FALSE, 2)
        ELSE bad

\* The bytes of v for which keep holds, in their order.
Only(v, keep(_)) == SelectSeq(v, keep)

DoesNotNeedEscape(c) == ~MustBeEscaped(c)

\* The text escape_str was called with, and the call has returned.
EscapeStrReturned == conversion.to.kind = "escape_str"

\* C25: for every text v, what escape_str writes starts and ends with a
\* double quote, and between them is a body that reads back as v: every
\* double quote, backslash, C0 control and DEL of v is written as one of the
\* escapes \" \\ \b \t \n \f \r \uXXXX and never as itself, and every other
\* byte of v is written as itself, in order.
C25_EscapingIsLossless ==
    EscapeStrReturned
    => LET v == conversion.from.value
           body == SubSeq(out, 2, Len(out) - 1)
           read == Unescaped(body)
       IN  /\ conversion.to.res = Ok
           /\ Len(out) >= 2 /\ out[1] = 34 /\ out[Len(out)] = 34
           /\ read.ok
           /\ read.text = v
           /\ read.copied = Only(v, DoesNotNeedEscape)
           /\ read.escapes = Only(v, MustBeEscaped)

\* The text  \n"  of a backslash, the letter n and a double quote is written
\* as "\\n\"".
C25_Witness ==
    /\ EscapeStrReturned
    /\ conversion.from.value = <<92, 110, 34>>
    /\ out = <<34, 92, 92, 110, 92, 34, 34>>

----------------------------------------------------------------------------
(* The level and the frames.                                               *)

\* The frames of a collection whose first child has started: Sequence and
\* Mapping with first = false, and MappingItemValue.
IsBegunFrame(frame) ==
    \/ frame.kind \in {"Sequence", "Mapping"} /\ ~frame.first
    \/ frame.kind = "MappingItemValue"

\* C26: while every call of event has returned Ok, the level is -1 plus the
\* number of frames on the stack that are Sequence(first = false),
\* Mapping(first = false) or MappingItemValue; it is therefore never below
\* -1, and it is -1 after an accepted DocumentStart, DocumentEnd or StreamEnd.
C26_LevelCountsBegunFrames ==
    ~errored
    => /\ level = -1 + Cardinality({i \in DOMAIN stack : IsBegunFrame(stack[i])})
       /\ level >= -1
       /\ (accepted # <<>>
             /\ Last(accepted) \in {DocumentStart, DocumentEnd, StreamEnd})
          => level = -1

\* A mapping whose first key has a sequence with one item as its value: two
\* such frames, level 1.
C26_Witness ==
    /\ accepted = <<StreamStart, DocumentStart, MappingStart, Scalar(String(<<97>>)),
                    SequenceStart, Scalar(Null)>>
    /\ stack = <<DocsFrame(FALSE), DocEndFrame, MappingFrame(FALSE), SequenceFrame(FALSE)>>
    /\ level = 1

----------------------------------------------------------------------------
(* The empty stack.                                                        *)

\* C27: the stack is empty exactly when a call of event has returned an
\* error.  While every call has returned Ok the stack holds a frame, and its
\* bottom frame is Start, Docs or End; and ExistingError is returned only by
\* a call that came after a call that returned an error.
C27_EmptyStackMeansEarlierError ==
    /\ stack = <<>> <=> errored
    /\ ~errored => stack[1].kind \in {"Start", "Docs", "End"}
    /\ (result.kind = "StateError" /\ result.state_type = "ExistingError") => after_error

\* The sink failed in the first item of a sequence: the stack is empty, and
\* the call after it was answered with ExistingError.
C27_Witness ==
    /\ stack = <<>>
    /\ accepted = <<StreamStart, DocumentStart, SequenceStart>>
    /\ out = <<45>>
    /\ result = new_state_error("ExistingError", SequenceEnd)

----------------------------------------------------------------------------
(* What a refused call leaves behind.                                      *)

\* C28: a call of event that returns a state error, for an event that is
\* illegal in the state or ExistingError, adds nothing to the sink and
\* leaves the level, the settings and the accepted events as they were; the
\* stack is empty after it.
C28_StateErrorOnlyEmptiesStack ==
    [][StateErrorReturned
       => /\ out' = out
          /\ level' = level
          /\ config' = config
          /\ accepted' = accepted
          /\ stack' = <<>>]_vars

\* A SequenceEnd came for the mapping that is the first item of a sequence:
\* the sink still ends with the "-" of the item and the level is still 0.
C28_Witness ==
    /\ accepted = <<StreamStart, DocumentStart, SequenceStart, MappingStart>>
    /\ result = new_state_error("Mapping", SequenceEnd)
    /\ ~after_error
    /\ out = <<45>>
    /\ level = 0
    /\ stack = <<>>

----------------------------------------------------------------------------
(* The stack as the chain of enclosing contexts.                           *)

\* The open collection (see GrammarStep) a frame stands for.
ContextOf(frame) ==
    CASE frame.kind \in {"Sequence", "ValSequence"} -> "seq"
      [] frame.kind \in {"Mapping", "ValMapping"} -> "key"
      [] frame.kind = "MappingItemValue" -> "val"
      [] OTHER -> "none"

\* C29: while every call of event has returned Ok, the stack holds one
\* frame when no document is open (Start before StreamStart, Docs between
\* documents, End after StreamEnd), and inside a document it holds the Docs
\* frame, the frame of the document and one frame for each collection that
\* is started and not ended, outermost first and of the kind of that
\* collection and of what it waits for: its height is 2 plus their number.
C29_OneFramePerOpenCollection ==
    ~errored
    => LET g == GrammarAfter(accepted)
       IN  IF InsideDocument
           THEN /\ Len(stack) = 2 + Len(g.open)
                /\ stack[1] = DocsFrame(FALSE)
                /\ stack[2] = IF g.phase = "doc" THEN DocFrame ELSE DocEndFrame
                /\ \A i \in DOMAIN g.open : ContextOf(stack[2 + i]) = g.open[i]
           ELSE /\ Len(stack) = 1
                /\ stack[1].kind = CASE g.phase = "start" -> "Start"
                                     [] g.phase = "stream" -> "Docs"
                                     [] OTHER -> "End"

\* A mapping whose first key is a sequence with one item: four frames.
C29_Witness ==
    /\ accepted = <<StreamStart, DocumentStart, MappingStart, SequenceStart,
                    Scalar(Null)>>
    /\ stack = <<DocsFrame(FALSE), DocEndFrame, MappingItemValueFrame(TRUE),
                 SequenceFrame(FALSE)>>

====
